---- MODULE Spec2Model ----
(***************************************************************************)
(* A model of the medassist healthcare-directory backend: the document     *)
(* stores (Patient, Doctor, Hospital) with their Mongoose save hooks, the  *)
(* id-validation middleware, the auth / patient / doctor / hospital / AI   *)
(* routes, the hospital locator service and the AI service.                *)
(*                                                                         *)
(* Numbers with one decimal place (ratings) are kept in tenths: 48 is 4.8. *)
(* Positions are whole kilometres on a line; the distance of two points is *)
(* the absolute difference (the geolib call is outside the repository).    *)
(***************************************************************************)
EXTENDS Integers, Sequences, FiniteSets, TLC

VARIABLES
    openaiKey,   \* process.env.OPENAI_API_KEY, by the cases the code tells apart
    mapsKey,     \* process.env.GOOGLE_MAPS_API_KEY, likewise
    patients,    \* the Patient collection: _id -> document
    doctors,     \* the Doctor collection: _id -> document
    hospitals,   \* the Hospital collection: _id -> document
    res,         \* the outcome of the last operation (HTTP response or service result)
    out,         \* the data the last operation returned
    uploads,     \* the uploads directory, the clock that names its files, and
                 \* the history-summary requests in flight
    inflight,    \* the handlers and service calls suspended at an await:
                 \* request id -> what each has read so far
    ui           \* the state of the mounted front-end component and of the
                 \* browser's localStorage

vars == <<openaiKey, mapsKey, patients, doctors, hospitals, res, out, uploads, inflight, ui>>

-----------------------------------------------------------------------------
(* Bounds of the model *)

MaxContacts == 5        \* longest emergencyContacts list drawn
MaxReviews == 2         \* longest reviews list drawn for a doctor
MaxHospitalReviews == 2 \* reviews a hospital can accumulate
MaxPos == 2             \* positions (km) hospitals and callers are drawn from: 0..MaxPos
MaxClock == 2           \* milliseconds the clock of the upload file names runs through

-----------------------------------------------------------------------------
(* Values *)

\* An empty uploads directory and no request in flight. files maps a path
\* (the millisecond of its creation) to the text stored there.
NoUploads == [clock |-> 1, files |-> <<>>, requests |-> <<>>]

\* No handler suspended at an await, and no front-end component mounted.
NoInflight == <<>>
NoUi == <<>>

Undefined == "undefined"
Null == "null"

PatientIds == {"p1", "p2"}
DoctorIds == {"d1", "d2", "d3"}
HospitalIds == {"h1", "h2", "h3"}

\* The order in which new patient ids are handed out.
PatientIdOrder == <<"p1", "p2">>

\* Strings that are syntactically valid ObjectIds; "x9" matches no document.
WellFormedIds == PatientIds \cup DoctorIds \cup HospitalIds \cup {"x9"}

\* The ids requests are made with: one of each collection, one well-formed
\* id that matches nothing, and one malformed string.
IdInputs == {"p1", "d1", "h1", "x9", "bad"}

Emails == {"neel", "sarah", "ann"}

\* Sequences over S of length at most n.
SeqUpTo(S, n) == UNION {[1..k -> S] : k \in 0..n}

RECURSIVE SumSeq(_)
SumSeq(s) == IF s = <<>> THEN 0 ELSE Head(s) + SumSeq(Tail(s))

Count(s, P(_)) == Cardinality({i \in DOMAIN s : P(s[i])})

Min2(a, b) == IF a <= b THEN a ELSE b

Abs(n) == IF n < 0 THEN 0 - n ELSE n

-----------------------------------------------------------------------------
(* Patient schema *)

\* The hook with its index test off by one: the first two positions are kept.
PatientPreSaveOffByOne(contacts) ==
    LET primaryContacts == {i \in DOMAIN contacts : contacts[i]}
    IN  IF Cardinality(primaryContacts) > 1
        THEN [i \in DOMAIN contacts |-> IF contacts[i] /\ i > 2 THEN FALSE ELSE contacts[i]]
        ELSE contacts

\* patientSchema.pre('save'): when more than one contact is primary, every
\* primary contact at an index above the first position is demoted.
PatientPreSave(contacts) ==
    LET primaryContacts == {i \in DOMAIN contacts : contacts[i]}
    IN  IF Cardinality(primaryContacts) > 1
        THEN [i \in DOMAIN contacts |-> IF contacts[i] /\ i > 1 THEN FALSE ELSE contacts[i]]
        ELSE contacts

\* A new Patient document with the schema defaults.
NewPatient(email) ==
    [email |-> email, emergencyContacts |-> <<>>, lastLoginDate |-> FALSE,
     zipCode |-> "", vitalSigns |-> 0,
     healthSummary |-> [riskFactors |-> <<>>, recommendations |-> <<>>,
                        overallRiskScore |-> -1, lastAnalyzed |-> "never"]]

\* document.save(): run the pre-save hook, then persist.
PatientSaved(doc) ==
    [doc EXCEPT !.emergencyContacts = PatientPreSave(doc.emergencyContacts)]

-----------------------------------------------------------------------------
(* Doctor schema *)

\* Number((totalRating / n).toFixed(1)), in tenths.
ToFixed1(total, n) == (20 * total + n) \div (2 * n)

\* doctorSchema.pre('save'): recomputes the two derived fields, but only
\* when the reviews list is not empty.
DoctorPreSave(doc) ==
    IF Len(doc.reviews) > 0
    THEN LET publicReviews == SelectSeq(doc.reviews, LAMBDA r : r.isPublic)
             totalReviews == Len(publicReviews)
             totalRating == SumSeq([i \in DOMAIN publicReviews |-> publicReviews[i].rating])
         IN  [doc EXCEPT !.totalReviews = totalReviews,
                         !.averageRating = IF totalReviews > 0
                                           THEN ToFixed1(totalRating, totalReviews)
                                           ELSE 0]
    ELSE doc

DoctorSaved(doc) == DoctorPreSave(doc)

\* doctorSchema.methods.addReview: push a review (isPublic defaults to true)
\* and save.
DoctorWithReview(doc, rating) ==
    DoctorSaved([doc EXCEPT !.reviews = Append(@, [rating |-> rating, isPublic |-> TRUE])])

-----------------------------------------------------------------------------
(* Hospital schema *)

\* hospitalSchema.methods.addReview: push a review and save.
HospitalWithReview(doc, rating) ==
    [doc EXCEPT !.reviews = Append(@, [rating |-> rating, isPublic |-> TRUE])]

-----------------------------------------------------------------------------
(* Seed data *)

samplePatients ==
    [p1 |-> [email |-> "neel", emergencyContacts |-> <<TRUE>>, lastLoginDate |-> FALSE,
             zipCode |-> "10001", vitalSigns |-> 2,
             healthSummary |-> [riskFactors |-> <<"Diabetes", "Hypertension">>,
                                recommendations |-> <<"Regular exercise">>,
                                overallRiskScore |-> 35, lastAnalyzed |-> "seed"]]]

SampleDoctor(email, hospital, zipCode, specializations, years, rating, total) ==
    [email |-> email, hospital |-> hospital, zipCode |-> zipCode,
     specializations |-> specializations,
     isActive |-> TRUE, isVerified |-> TRUE, acceptingNewPatients |-> TRUE,
     yearsOfExperience |-> years, reviews |-> <<>>,
     averageRating |-> rating, totalReviews |-> total, lastLoginDate |-> FALSE]

sampleDoctors ==
    [d1 |-> SampleDoctor("sarah", "h1", "10029", {"Cardiology", "Internal Medicine"}, 15, 48, 124),
     d2 |-> SampleDoctor("michael", "h2", "", {"Pediatrics", "Neonatology"}, 12, 49, 89),
     d3 |-> SampleDoctor("emily", "h3", "", {"Dermatology"}, 8, 47, 67)]

EmergencyService(service, wait) ==
    [service |-> service, isAvailable |-> TRUE, averageWaitTime |-> wait]

\* bedCount.icu is an optional number: <<>> when unset, <<n>> when set.
SampleHospital(name, pos, icu, services, specialties, doctorIds) ==
    [name |-> name, pos |-> pos, isActive |-> TRUE, isVerified |-> TRUE,
     is24Hours |-> TRUE, icu |-> <<icu>>, emergencyServices |-> services,
     specialtyServices |-> specialties, doctors |-> doctorIds, reviews |-> <<>>]

sampleHospitals ==
    [h1 |-> SampleHospital({"mount", "sinai", "hospital"}, 2, 100,
                <<EmergencyService("Trauma Center", 15), EmergencyService("Cardiac Emergency", 10)>>,
                {"Cardiology", "Neurology", "Oncology", "Pediatrics", "Emergency Medicine"}, {"d1"}),
     h2 |-> SampleHospital({"newyork", "presbyterian", "hospital"}, 1, 200,
                <<EmergencyService("Level I Trauma Center", 12)>>,
                {"Pediatrics", "Oncology", "Cardiology", "Neurosurgery", "Transplant"}, {"d2"}),
     h3 |-> SampleHospital({"nyu", "langone", "health"}, 0, 120, <<>>,
                {"Orthopedics", "Dermatology", "Psychiatry", "Radiology"}, {"d3"})]

-----------------------------------------------------------------------------
(* Environment *)

\* OPENAI_API_KEY by what the code tests of it: whether it is set, whether it
\* starts with 'sk-', whether it contains 'placeholder'.
OpenAIKeys ==
    {k \in [present : BOOLEAN, sk : BOOLEAN, placeholder : BOOLEAN] :
        ~k.present => (~k.sk /\ ~k.placeholder)}

\* GOOGLE_MAPS_API_KEY: whether it is set, and whether it contains
\* 'placeholder' or 'your-'.
MapsKeys ==
    {k \in [present : BOOLEAN, placeholder : BOOLEAN] : ~k.present => ~k.placeholder}

NoKey == [present |-> FALSE, sk |-> FALSE, placeholder |-> FALSE]
NoMapsKey == [present |-> FALSE, placeholder |-> FALSE]

\* AIService.constructor: apiKey && apiKey.startsWith('sk-') && !apiKey.includes('placeholder')
hasRealApiKey == openaiKey.present /\ openaiKey.sk /\ ~openaiKey.placeholder

\* HospitalLocatorService: this.googleMapsApiKey is truthy
googleMapsApiKey == mapsKey.present

\* The routes' own test: key && !includes('placeholder') && !includes('your-')
routeHasRealApiKey == mapsKey.present /\ ~mapsKey.placeholder

\* What an upstream HTTP call can do.
Upstream == {"ok", "fail"}

-----------------------------------------------------------------------------
(* Responses *)

Response(op, id, status, message, queries, writes) ==
    [op |-> op, id |-> id, status |-> status, message |-> message,
     queries |-> queries, writes |-> writes, calls |-> 0]

\* The same outcome, having sent n upstream requests.
WithCalls(r, n) == [r EXCEPT !.calls = n]

\* The result of a service method: status 0, message "" when it returned.
Returned(op, id, queries, writes) == Response(op, id, 0, "", queries, writes)
Raised(op, id, message, queries, writes) == Response(op, id, -1, message, queries, writes)

\* A catch block that passes the caught error's own message on.
RethrownWithCause(error, message) == error

\* catch (error) { console.error(..., error); throw new Error(message) }, and
\* the routes' catch blocks answering a fixed message: the caught error goes
\* to the log only.
Rethrown(error, message) == message

\* asyncHandler passes a rejected handler to the error middleware. A plain
\* Error carries no status and is answered 500; for Mongoose's CastError the
\* status is left open.
errorHandler(kind) == IF kind = "CastError" THEN {400, 404, 500} ELSE {500}

-----------------------------------------------------------------------------
(* Validation middleware. TRUE means next() is called. *)

Param(params, key) == IF key \in DOMAIN params THEN params[key] ELSE Undefined

\* mongoose.Types.ObjectId.isValid
IsValidObjectId(v) == v \in WellFormedIds

\* The check made on the key the patient routes declare.
validatePatientIdOfRouteKey(params) == IsValidObjectId(Param(params, "id"))

validatePatientId(params) == IsValidObjectId(Param(params, "patientId"))

validateDoctorId(params) == IsValidObjectId(Param(params, "doctorId"))

validateHospitalId(params) ==
    LET hospitalId == Param(params, "hospitalId")
        id == Param(params, "id")
        targetId == IF hospitalId # Undefined THEN hospitalId ELSE id
    IN  IsValidObjectId(targetId)

-----------------------------------------------------------------------------
(* Patient routes *)

\* GET /api/patients/:id
GetPatient(id) ==
    /\ res' = IF ~validatePatientId([id |-> id])
              THEN Response("GET /patients/:id", id, 400, "Invalid patient ID format", 0, 0)
              ELSE IF id \notin DOMAIN patients
              THEN Response("GET /patients/:id", id, 404, "Patient not found", 1, 0)
              ELSE Response("GET /patients/:id", id, 200, "", 1, 0)
    /\ out' = Null
    /\ UNCHANGED <<openaiKey, mapsKey, inflight, ui, uploads, patients, doctors, hospitals>>

\* PUT /api/patients/:id: Patient.findByIdAndUpdate(id, req.body), which
\* runs no save hook.
PutPatient(id, body) ==
    IF ~validatePatientId([id |-> id])
    THEN /\ res' = Response("PUT /patients/:id", id, 400, "Invalid patient ID format", 0, 0)
         /\ out' = Null
         /\ UNCHANGED <<openaiKey, mapsKey, inflight, ui, uploads, patients, doctors, hospitals>>
    ELSE IF id \notin DOMAIN patients
    THEN /\ res' = Response("PUT /patients/:id", id, 404, "Patient not found", 1, 0)
         /\ out' = Null
         /\ UNCHANGED <<openaiKey, mapsKey, inflight, ui, uploads, patients, doctors, hospitals>>
    ELSE /\ patients' = [patients EXCEPT ![id].emergencyContacts = body.emergencyContacts]
         /\ res' = Response("PUT /patients/:id", id, 200, "", 1, 1)
         /\ out' = Null
         /\ UNCHANGED <<openaiKey, mapsKey, inflight, ui, uploads, doctors, hospitals>>

-----------------------------------------------------------------------------
(* Doctor routes *)

\* GET /api/doctors/:id
GetDoctor(id) ==
    /\ res' = IF ~validateDoctorId([id |-> id])
              THEN Response("GET /doctors/:id", id, 400, "Invalid doctor ID format", 0, 0)
              ELSE IF id \notin DOMAIN doctors
              THEN Response("GET /doctors/:id", id, 404, "Doctor not found", 1, 0)
              ELSE Response("GET /doctors/:id", id, 200, "", 1, 0)
    /\ out' = Null
    /\ UNCHANGED <<openaiKey, mapsKey, inflight, ui, uploads, patients, doctors, hospitals>>

\* GET /api/doctors/:id/availability
GetDoctorAvailability(id) ==
    /\ res' = IF ~validateDoctorId([id |-> id])
              THEN Response("GET /doctors/:id/availability", id, 400, "Invalid doctor ID format", 0, 0)
              ELSE IF id \notin DOMAIN doctors
              THEN Response("GET /doctors/:id/availability", id, 404, "Doctor not found", 1, 0)
              ELSE Response("GET /doctors/:id/availability", id, 200, "", 1, 0)
    /\ out' = Null
    /\ UNCHANGED <<openaiKey, mapsKey, inflight, ui, uploads, patients, doctors, hospitals>>

-----------------------------------------------------------------------------
(* Auth routes *)

UserTypes == {"patient", "doctor", "admin"}

\* The first id of the order that holds no document; Null when all are taken.
FreshId(order, store) ==
    LET free == {i \in DOMAIN order : order[i] \notin DOMAIN store}
    IN  IF free = {} THEN Null
        ELSE order[CHOOSE i \in free : \A j \in free : i <= j]

FindByEmail(store, email) == {id \in DOMAIN store : store[id].email = email}

\* POST /api/auth/register/patient
RegisterPatient(email) ==
    IF FindByEmail(patients, email) # {}
    THEN /\ res' = Response("POST /auth/register/patient", email, 400,
                            "Patient with this email already exists", 1, 0)
         /\ out' = Null
         /\ UNCHANGED <<openaiKey, mapsKey, inflight, ui, uploads, patients, doctors, hospitals>>
    ELSE /\ FreshId(PatientIdOrder, patients) # Null
         /\ patients' = (FreshId(PatientIdOrder, patients) :> PatientSaved(NewPatient(email)))
                            @@ patients
         /\ res' = Response("POST /auth/register/patient", email, 201, "", 1, 1)
         /\ out' = Null
         /\ UNCHANGED <<openaiKey, mapsKey, inflight, ui, uploads, doctors, hospitals>>

\* POST /api/auth/login: needs an email and a password, looks the user up by
\* email in the collection userType names, sets lastLoginDate and saves the
\* document. The password is not compared; JWT_SECRET is taken to be set.
Login(email, hasPassword, userType) ==
    LET store == IF userType = "patient" THEN patients
                 ELSE IF userType = "doctor" THEN doctors ELSE <<>>
        found == FindByEmail(store, email)
    IN  IF ~hasPassword
        THEN /\ res' = Response("POST /auth/login", email, 400,
                                "Please provide email and password", 0, 0)
             /\ out' = Null
             /\ UNCHANGED <<openaiKey, mapsKey, inflight, ui, uploads, patients, doctors, hospitals>>
        ELSE IF found = {}
        THEN /\ res' = Response("POST /auth/login", email, 401, "Invalid credentials",
                                IF userType \in {"patient", "doctor"} THEN 1 ELSE 0, 0)
             /\ out' = Null
             /\ UNCHANGED <<openaiKey, mapsKey, inflight, ui, uploads, patients, doctors, hospitals>>
        ELSE LET id == CHOOSE i \in found : TRUE
             IN  /\ IF userType = "patient"
                    THEN /\ patients' = [patients EXCEPT
                                ![id] = PatientSaved([@ EXCEPT !.lastLoginDate = TRUE])]
                         /\ UNCHANGED doctors
                    ELSE /\ doctors' = [doctors EXCEPT
                                ![id] = DoctorSaved([@ EXCEPT !.lastLoginDate = TRUE])]
                         /\ UNCHANGED patients
                 /\ res' = Response("POST /auth/login", id, 200, "", 1, 1)
                 /\ out' = [before |-> store[id]]
                 /\ UNCHANGED <<openaiKey, mapsKey, inflight, ui, uploads, hospitals>>

-----------------------------------------------------------------------------
(* Seed script *)

\* seedDatabase: deleteMany on the three collections, then insertMany of the
\* samples (insertMany runs no save hook).
seedDatabase ==
    /\ patients' = samplePatients
    /\ doctors' = sampleDoctors
    /\ hospitals' = sampleHospitals
    /\ res' = Returned("seedDatabase", "", 0, 9)
    /\ out' = Null
    /\ UNCHANGED <<openaiKey, mapsKey, inflight, ui, uploads>>

-----------------------------------------------------------------------------
(* Locator service: locations, geocoding, capacity, directions *)

Positions == 0..MaxPos

\* A location descriptor: an object with optional coordinates (-1: none),
\* address and zipCode ("": none), or a plain string (str # "").
Location(coordinates, address, zipCode, str) ==
    [coordinates |-> coordinates, address |-> address, zipCode |-> zipCode, str |-> str]

AddressInputs == {"new york", "chicago", "elsewhere"}

\* getDistance(...) / 1000
Distance(a, b) == Abs(a - b)

\* What a service step gives back: ok is FALSE when it threw; calls counts
\* the upstream HTTP requests it sent.
Step(ok, value, calls) == [ok |-> ok, value |-> value, calls |-> calls, error |-> ""]

\* A step that threw an Error with this message.
Thrown(message, calls) == [ok |-> FALSE, value |-> 0, calls |-> calls, error |-> message]

\* geocodeAddress: without a key the mock city table, defaulting to New York;
\* with a key one geocoding request, whose failure or empty result throws.
geocodeAddress(address, up, upPos) ==
    IF ~googleMapsApiKey
    THEN Step(TRUE, IF address = "chicago" THEN Min2(1, MaxPos) ELSE 0, 0)
    ELSE IF up = "ok" THEN Step(TRUE, upPos, 1)
    ELSE Thrown(Rethrown(up, "Failed to geocode address"), 1)

geocodeZipCode(zipCode, up, upPos) == geocodeAddress(zipCode, up, upPos)

\* resolveCoordinates: coordinates, else address, else zipCode, else a string
\* location; anything else throws.
resolveCoordinates(location, up, upPos) ==
    IF location.coordinates # -1 THEN Step(TRUE, location.coordinates, 0)
    ELSE IF location.address # "" THEN geocodeAddress(location.address, up, upPos)
    ELSE IF location.zipCode # "" THEN geocodeZipCode(location.zipCode, up, upPos)
    ELSE IF location.str # "" THEN geocodeAddress(location.str, up, upPos)
    ELSE Thrown("Unable to resolve coordinates from location", 0)

\* Model.findById(id): "cast" when the id cannot be cast to an ObjectId (no
\* query is sent), "none" when no document has the id.
findById(store, id) ==
    IF ~IsValidObjectId(id) THEN "cast"
    ELSE IF id \notin DOMAIN store THEN "none" ELSE "found"

QueriesOf(found) == IF found = "cast" THEN 0 ELSE 1

\* getHospitalCapacity: every failure inside, the missing hospital included,
\* is rethrown as 'Failed to get hospital capacity'.
getHospitalCapacity(hospitalId) ==
    LET found == findById(hospitals, hospitalId)
    IN  IF found = "found"
        THEN Returned("getHospitalCapacity", hospitalId, 1, 0)
        ELSE Raised("getHospitalCapacity", hospitalId, "Failed to get hospital capacity",
                    QueriesOf(found), 0)

\* getDirections: every failure inside, the missing hospital included, is
\* rethrown as 'Failed to get directions'.
getDirections(origin, hospitalId, up1, up2, upPos) ==
    LET found == findById(hospitals, hospitalId)
        originCoords == resolveCoordinates(origin, up1, upPos)
        failed(error) == Raised("getDirections", hospitalId,
                                Rethrown(error, "Failed to get directions"), QueriesOf(found), 0)
    IN  IF found # "found" THEN failed("Hospital not found")
        ELSE IF ~originCoords.ok THEN WithCalls(failed(originCoords.error), originCoords.calls)
        ELSE IF ~googleMapsApiKey THEN Returned("getDirections", hospitalId, 1, 0)
        ELSE IF up2 = "ok"
        THEN WithCalls(Returned("getDirections", hospitalId, 1, 0), originCoords.calls + 1)
        ELSE WithCalls(failed(up2), originCoords.calls + 1)

-----------------------------------------------------------------------------
(* Hospital routes keyed by id. None of them runs validateHospitalId. *)

\* The response the error middleware sends for a handler that rejected.
ErrorResponse(op, id, message, queries, status) ==
    Response(op, id, status, message, queries, 0)

\* A handler that only looks the hospital up: GET /:id, /:id/departments,
\* /:id/reviews.
HospitalLookup(op, id) ==
    LET found == findById(hospitals, id)
    IN  /\ \E status \in errorHandler("CastError") :
            res' = IF found = "cast"
                   THEN ErrorResponse(op, id, "Cast to ObjectId failed", 0, status)
                   ELSE IF found = "none"
                   THEN Response(op, id, 404, "Hospital not found", 1, 0)
                   ELSE Response(op, id, 200, "", 1, 0)
        /\ out' = Null
        /\ UNCHANGED <<openaiKey, mapsKey, inflight, ui, uploads, patients, doctors, hospitals>>

\* GET /api/hospitals/:id
GetHospital(id) == HospitalLookup("GET /hospitals/:id", id)

\* GET /api/hospitals/:id/departments
GetHospitalDepartments(id) == HospitalLookup("GET /hospitals/:id/departments", id)

\* GET /api/hospitals/:id/reviews
GetHospitalReviews(id) == HospitalLookup("GET /hospitals/:id/reviews", id)

\* GET /api/hospitals/:id/capacity
GetHospitalCapacity(id) ==
    LET r == getHospitalCapacity(id)
    IN  /\ \E status \in errorHandler("Error") :
            res' = IF r.status = -1
                   THEN ErrorResponse("GET /hospitals/:id/capacity", id, r.message,
                                      r.queries, status)
                   ELSE Response("GET /hospitals/:id/capacity", id, 200, "", r.queries, 0)
        /\ out' = Null
        /\ UNCHANGED <<openaiKey, mapsKey, inflight, ui, uploads, patients, doctors, hospitals>>

\* POST /api/hospitals/:id/directions
PostHospitalDirections(id, hasOrigin, origin, up1, up2, upPos) ==
    LET r == getDirections(origin, id, up1, up2, upPos)
    IN  /\ \E status \in errorHandler("Error") :
            res' = IF ~hasOrigin
                   THEN Response("POST /hospitals/:id/directions", id, 400,
                                 "Origin location is required", 0, 0)
                   ELSE IF r.status = -1
                   THEN WithCalls(ErrorResponse("POST /hospitals/:id/directions", id,
                                                r.message, r.queries, status), r.calls)
                   ELSE WithCalls(Response("POST /hospitals/:id/directions", id, 200, "",
                                           r.queries, 0), r.calls)
        /\ out' = [hasOrigin |-> hasOrigin]
        /\ UNCHANGED <<openaiKey, mapsKey, inflight, ui, uploads, patients, doctors, hospitals>>

\* The check without its upper limit.
RatingRejectedNoUpperLimit(hasRating, rating) == ~hasRating \/ rating = 0 \/ rating < 1

\* !rating || rating < 1 || rating > 5
RatingRejected(hasRating, rating) == ~hasRating \/ rating = 0 \/ rating < 1 \/ rating > 5

\* POST /api/hospitals/:id/reviews
PostHospitalReview(id, hasRating, rating) ==
    LET op == "POST /hospitals/:id/reviews"
        found == findById(hospitals, id)
    IN  /\ out' = [hasRating |-> hasRating, rating |-> rating]
        /\ IF RatingRejected(hasRating, rating)
           THEN /\ res' = Response(op, id, 400, "Rating must be between 1 and 5", 0, 0)
                /\ UNCHANGED <<openaiKey, mapsKey, inflight, ui, uploads, patients, doctors, hospitals>>
           ELSE IF found = "cast"
           THEN /\ \E status \in errorHandler("CastError") :
                    res' = ErrorResponse(op, id, "Cast to ObjectId failed", 0, status)
                /\ UNCHANGED <<openaiKey, mapsKey, inflight, ui, uploads, patients, doctors, hospitals>>
           ELSE IF found = "none"
           THEN /\ res' = Response(op, id, 404, "Hospital not found", 1, 0)
                /\ UNCHANGED <<openaiKey, mapsKey, inflight, ui, uploads, patients, doctors, hospitals>>
           ELSE /\ Len(hospitals[id].reviews) < MaxHospitalReviews
                /\ hospitals' = [hospitals EXCEPT ![id] = HospitalWithReview(@, rating)]
                /\ res' = Response(op, id, 201, "", 1, 1)
                /\ UNCHANGED <<openaiKey, mapsKey, inflight, ui, uploads, patients, doctors>>

-----------------------------------------------------------------------------
(* Locator service: the find operations *)

HospitalIdOrder == <<"h1", "h2", "h3">>
DoctorIdOrder == <<"d1", "d2", "d3">>

IndexOf(order, x) == CHOOSE i \in DOMAIN order : order[i] = x

\* The ids of S by ascending key; equal keys keep the store's order.
RECURSIVE SortIds(_, _, _)
SortIds(S, key, order) ==
    IF S = {} THEN <<>>
    ELSE LET m == CHOOSE a \in S : \A b \in S \ {a} :
                      \/ key[a] < key[b]
                      \/ key[a] = key[b] /\ IndexOf(order, a) < IndexOf(order, b)
         IN  <<m>> \o SortIds(S \ {m}, key, order)

\* cursor.limit(n)
Take(s, n) == SubSeq(s, 1, Min2(n, Len(s)))

Range(s) == {s[i] : i \in DOMAIN s}

\* What a find operation returns: the hospital and doctor documents of the
\* result list, and the documents embedded in them by populate().
Found(hospitalIds, doctorIds, populatedDoctors, populatedHospitals) ==
    [hospitals |-> hospitalIds, doctors |-> doctorIds,
     populatedDoctors |-> populatedDoctors, populatedHospitals |-> populatedHospitals]

NothingFound == Found(<<>>, <<>>, {}, {})

\* $near with $maxDistance
Near(h, coordinates, radius) == Distance(coordinates, hospitals[h].pos) <= radius

DistanceKey(S, coordinates) == [h \in S |-> Distance(coordinates, hospitals[h].pos)]

\* populate('doctors', ...): the referenced doctor documents that exist,
\* whatever their flags.
PopulateDoctors(hs) == UNION {hospitals[h].doctors \cap DOMAIN doctors : h \in hs}

\* The options of findNearbyHospitals the model tells apart; specialty "" is
\* none.
NearbyOptions(radius, limit, specialty, emergency) ==
    [radius |-> radius, limit |-> limit, specialty |-> specialty, emergency |-> emergency]

\* findNearbyHospitals: its own location handling (no plain-string case),
\* the query with its filters, the limit, the sort by distance.
findNearbyHospitals(location, options, up, upPos) ==
    LET op == "findNearbyHospitals"
        c == IF location.coordinates # -1 THEN Step(TRUE, location.coordinates, 0)
             ELSE IF location.address # "" THEN geocodeAddress(location.address, up, upPos)
             ELSE IF location.zipCode # "" THEN geocodeZipCode(location.zipCode, up, upPos)
             ELSE Thrown("Invalid location format", 0)
        matching == {h \in DOMAIN hospitals :
                        /\ Near(h, c.value, options.radius)
                        /\ hospitals[h].isActive
                        /\ hospitals[h].isVerified
                        /\ options.specialty # "" => options.specialty \in hospitals[h].specialtyServices
                        /\ options.emergency => hospitals[h].is24Hours}
        found == Take(SortIds(matching, DistanceKey(matching, c.value), HospitalIdOrder),
                      options.limit)
    IN  IF ~c.ok
        THEN [result |-> WithCalls(Raised(op, "", Rethrown(c.error, "Failed to find nearby hospitals"),
                                          0, 0), c.calls),
              value |-> NothingFound]
        ELSE [result |-> WithCalls(Returned(op, "", 1, 0),
                                   c.calls + (IF googleMapsApiKey THEN Len(found) ELSE 0)),
              value |-> Found(found, <<>>, PopulateDoctors(Range(found)), {})]

CriticalServices == {"Trauma Center", "Critical Care", "Cardiac Emergency"}

ServicesOf(doc) == {doc.emergencyServices[i].service : i \in DOMAIN doc.emergencyServices}

\* 'bedCount.icu': { $gt: 0 }
IcuAvailable(doc) == doc.icu # <<>> /\ doc.icu[1] > 0

\* sort({'emergencyServices.averageWaitTime': 1}): ascending by the smallest
\* wait time of the services array.
WaitKey(S) ==
    [h \in S |->
        LET waits == {hospitals[h].emergencyServices[i].averageWaitTime :
                          i \in DOMAIN hospitals[h].emergencyServices}
        IN  CHOOSE w \in waits : \A v \in waits : w <= v]

\* limit(10)
EmergencyLimit == 10

\* What an emergency search tells of a facility it returns.
Facility(id, icu, services) == [id |-> id, icu |-> icu, services |-> services]

\* findEmergencyHospitals: each condition on emergencyServices is an
\* independent condition on the array.
findEmergencyHospitals(location, urgencyLevel, up, upPos) ==
    LET op == "findEmergencyHospitals"
        c == resolveCoordinates(location, up, upPos)
        matching == {h \in DOMAIN hospitals :
                        /\ Near(h, c.value, 50)
                        /\ hospitals[h].isActive
                        /\ hospitals[h].is24Hours
                        /\ \E i \in DOMAIN hospitals[h].emergencyServices :
                               hospitals[h].emergencyServices[i].isAvailable
                        /\ urgencyLevel = "critical" =>
                               /\ ServicesOf(hospitals[h]) \cap CriticalServices # {}
                               /\ IcuAvailable(hospitals[h])}
        found == Take(SortIds(matching, WaitKey(matching), HospitalIdOrder), EmergencyLimit)
    IN  IF ~c.ok
        THEN [result |-> WithCalls(Raised(op, urgencyLevel, "Failed to find emergency hospitals", 0, 0),
                                   c.calls),
              value |-> NothingFound]
        ELSE [result |-> WithCalls(Returned(op, urgencyLevel, 1, 0),
                                   c.calls + (IF googleMapsApiKey THEN Len(found) ELSE 0)),
              value |-> [hospitals |-> found, doctors |-> <<>>,
                         populatedDoctors |-> {}, populatedHospitals |-> {},
                         facilities |-> [i \in DOMAIN found |->
                                Facility(found[i], hospitals[found[i]].icu,
                                         ServicesOf(hospitals[found[i]]))],
                         urgencyLevel |-> urgencyLevel,
                         recommendedHospital |-> IF found = <<>> THEN Null ELSE found[1]]]

\* hospitalSchema.statics.findBySpecialty
findBySpecialty(specialty) ==
    {h \in DOMAIN hospitals :
        /\ specialty \in hospitals[h].specialtyServices
        /\ hospitals[h].isActive
        /\ hospitals[h].isVerified}

\* The Doctor.find of findSpecialistsInHospital; rating 0 is no rating filter.
SpecialistsIn(hospitalId, specialty, rating) ==
    {d \in DOMAIN doctors :
        /\ doctors[d].hospital = hospitalId
        /\ specialty \in doctors[d].specializations
        /\ doctors[d].isActive /\ doctors[d].isVerified /\ doctors[d].acceptingNewPatients
        /\ rating # 0 => doctors[d].averageRating >= rating}

\* findSpecialistsInHospital: the doctors in store order with their hospital
\* populated; any failure gives the empty list.
findSpecialistsInHospital(hospitalId, specialty, rating) ==
    LET op == "findSpecialistsInHospital"
        S == SpecialistsIn(hospitalId, specialty, rating)
        found == SortIds(S, [d \in S |-> 0], DoctorIdOrder)
    IN  IF ~IsValidObjectId(hospitalId)
        THEN [result |-> Returned(op, hospitalId, 0, 0), value |-> NothingFound]
        ELSE [result |-> Returned(op, hospitalId, 1, 0),
              value |-> Found(<<>>, found, {},
                              IF S = {} THEN {} ELSE {hospitalId} \cap DOMAIN hospitals)]

\* The distance from the search location to the hospital a specialist works at.
SpecialistDistance(d, coordinates) == Distance(coordinates, hospitals[doctors[d].hospital].pos)

\* specialists.sort(...): the lean documents carry no distance, so for equal
\* ratings the comparator yields NaN, which sort takes for 0, and the stable
\* sort leaves such specialists in the order they were pushed.
SortSpecialists(S, pushed, coordinates) ==
    SortIds(S, [d \in S |-> 0 - doctors[d].averageRating], pushed)

\* findSpecialists: hospitals with the specialty within the radius, their
\* specialists pushed hospital by hospital, sorted, cut to the limit.
findSpecialists(location, specialty, radius, limit, rating, up, upPos) ==
    LET op == "findSpecialists"
        c == resolveCoordinates(location, up, upPos)
        nearbyHospitals == {h \in findBySpecialty(specialty) : Near(h, c.value, radius)}
        S == UNION {SpecialistsIn(h, specialty, rating) : h \in nearbyHospitals}
        pushed == SortIds(S, [d \in S |-> IndexOf(HospitalIdOrder, doctors[d].hospital)],
                          DoctorIdOrder)
        found == Take(SortSpecialists(S, pushed, c.value), limit)
    IN  IF ~c.ok
        THEN [result |-> WithCalls(Raised(op, specialty, "Failed to find specialists", 0, 0), c.calls),
              value |-> NothingFound]
        ELSE [result |-> WithCalls(Returned(op, specialty, 1 + Cardinality(nearbyHospitals), 0),
                                   c.calls),
              value |-> [hospitals |-> <<>>, doctors |-> found, populatedDoctors |-> {},
                         populatedHospitals |-> {doctors[found[i]].hospital : i \in DOMAIN found},
                         searchLocation |-> c.value, totalFound |-> Cardinality(S)]]

\* searchHospitalsByName: a case-insensitive match on the name; query "" matches
\* every name. hasLocation adds the $near condition.
searchHospitalsByName(query, hasLocation, location, radius, up, upPos) ==
    LET op == "searchHospitalsByName"
        c == IF hasLocation THEN resolveCoordinates(location, up, upPos) ELSE Step(TRUE, 0, 0)
        matching == {h \in DOMAIN hospitals :
                        /\ query = "" \/ query \in hospitals[h].name
                        /\ hospitals[h].isActive
                        /\ hasLocation => Near(h, c.value, radius)}
        key == IF hasLocation THEN DistanceKey(matching, c.value) ELSE [h \in matching |-> 0]
        found == Take(SortIds(matching, key, HospitalIdOrder), 20)
    IN  IF ~c.ok
        THEN [result |-> WithCalls(Raised(op, query, "Failed to search hospitals", 0, 0), c.calls),
              value |-> NothingFound]
        ELSE [result |-> WithCalls(Returned(op, query, 1, 0), c.calls),
              value |-> Found(found, <<>>, {}, {})]

\* A direct call of a locator operation; the stores are only read.
LocatorCall(d) ==
    /\ res' = d.result
    /\ out' = d.value
    /\ UNCHANGED <<openaiKey, mapsKey, inflight, ui, uploads, patients, doctors, hospitals>>

LocationInputs ==
    {Location(0, "", "", ""), Location(-1, "chicago", "", ""), Location(-1, "", "", "")}

RadiusInputs == {1, 25}
LimitInputs == {1, 20}
HospitalSpecialtyInputs == {"", "Cardiology"}
UrgencyInputs == {"standard", "critical"}
QueryInputs == {"", "hospital", "sinai"}

CallFindNearbyHospitals ==
    \E location \in LocationInputs, radius \in RadiusInputs, limit \in LimitInputs,
       specialty \in HospitalSpecialtyInputs, emergency \in BOOLEAN, up \in Upstream :
        LocatorCall(findNearbyHospitals(location,
                        NearbyOptions(radius, limit, specialty, emergency), up, 0))

CallFindEmergencyHospitals ==
    \E location \in LocationInputs, urgencyLevel \in UrgencyInputs, up \in Upstream :
        LocatorCall(findEmergencyHospitals(location, urgencyLevel, up, 0))

CallFindSpecialists ==
    \E location \in LocationInputs, radius \in RadiusInputs, rating \in {0, 40}, up \in Upstream :
        LocatorCall(findSpecialists(location, "Cardiology", radius, 15, rating, up, 0))

CallFindSpecialistsInHospital ==
    \E id \in {"h1", "h2", "x9", "bad"}, rating \in {0, 40} :
        LocatorCall(findSpecialistsInHospital(id, "Cardiology", rating))

CallGetDirections ==
    \E origin \in LocationInputs, id \in {"h1", "x9"}, up1, up2 \in Upstream :
        /\ res' = getDirections(origin, id, up1, up2, 0)
        /\ out' = [origin |-> origin]
        /\ UNCHANGED <<openaiKey, mapsKey, inflight, ui, uploads, patients, doctors, hospitals>>

\* The location descriptors resolveCoordinates is called with: an object with
\* any of coordinates, address and zipCode, or a plain string.
ResolveInputs ==
    {Location(c, a, z, "") : c \in {-1, 0, 1}, a \in {"", "chicago"}, z \in {"", "60601"}}
        \cup {Location(-1, "", "", "chicago")}

\* A direct call of resolveCoordinates: the error it throws, if any, and the
\* coordinates it returns beside the location it was given.
CallResolveCoordinates ==
    \E location \in ResolveInputs, up \in Upstream :
        LET c == resolveCoordinates(location, up, 0)
        IN  /\ res' = WithCalls(IF c.ok THEN Returned("resolveCoordinates", "", 0, 0)
                                ELSE Raised("resolveCoordinates", "", c.error, 0, 0), c.calls)
            /\ out' = [location |-> location, coordinates |-> c.value]
            /\ UNCHANGED <<openaiKey, mapsKey, inflight, ui, uploads, patients, doctors, hospitals>>

CallSearchHospitalsByName ==
    \E query \in QueryInputs, hasLocation \in BOOLEAN, location \in LocationInputs,
       up \in Upstream :
        LocatorCall(searchHospitalsByName(query, hasLocation, location, 1, up, 0))

-----------------------------------------------------------------------------
(* POST /api/hospitals/emergency *)

\* The demo facilities: distance in metres, priority in tenths.
DemoEmergencyHospitals ==
    <<[id |-> "demo_emergency_1", distance |-> 1100, priority |-> 953],
      [id |-> "demo_emergency_2", distance |-> 1800, priority |-> 932],
      [id |-> "demo_emergency_3", distance |-> 2500, priority |-> 895]>>

\* generateDemoEmergencyHospitals: those within the radius (metres), highest
\* priority first.
generateDemoEmergencyHospitals(radius) ==
    LET kept == {i \in DOMAIN DemoEmergencyHospitals :
                    DemoEmergencyHospitals[i].distance <= radius}
        sorted == SortIds(kept, [i \in kept |-> 0 - DemoEmergencyHospitals[i].priority],
                          <<1, 2, 3>>)
    IN  [k \in DOMAIN sorted |-> DemoEmergencyHospitals[sorted[k]]]

\* The places a Places search answers with.
PlacesResults == <<[id |-> "place_1"]>>

\* POST /api/hospitals/emergency reads latitude, longitude and radius only.
\* The records it answers with carry 'emergencyServices: true' and neither a
\* bed count nor a list of services. The request's urgencyLevel is kept in
\* the id field of the response record.
PostEmergency(hasCoords, latitude, urgencyLevel, radius, up) ==
    LET op == "POST /hospitals/emergency"
        demo == generateDemoEmergencyHospitals(radius)
        answer(list) == [facilities |-> [i \in DOMAIN list |-> Facility(list[i].id, <<>>, {})]]
    IN  /\ IF ~hasCoords \/ latitude = 0
           THEN /\ res' = Response(op, urgencyLevel, 400, "Latitude and longitude are required", 0, 0)
                /\ out' = Null
           ELSE IF ~routeHasRealApiKey
           THEN /\ res' = Response(op, urgencyLevel, 200, "", 0, 0)
                /\ out' = answer(demo)
           ELSE IF up = "ok"
           THEN /\ res' = WithCalls(Response(op, urgencyLevel, 200, "", 0, 0), 1)
                /\ out' = answer(Take(PlacesResults, 10))
           ELSE /\ res' = WithCalls(Response(op, urgencyLevel, 500,
                                             "Failed to find emergency hospitals", 0, 0), 1)
                /\ out' = Null
        /\ UNCHANGED <<openaiKey, mapsKey, inflight, ui, uploads, patients, doctors, hospitals>>

-----------------------------------------------------------------------------
(* AI service *)

\* What the text-generation provider can do with one request: reply with
\* text that parses as the requested JSON, reply with other text, or fail.
ProviderReplies == {"json", "text", "fail"}

\* this.openai.chat.completions.create(...): this.openai is null unless
\* hasRealApiKey, and the call then throws before any request is sent.
ProviderCall(up) == IF ~hasRealApiKey THEN "throw" ELSE up

ProviderAnswered(c) == c \in {"json", "text"}

EmptyInsights == [riskFactors |-> <<>>, recommendations |-> <<>>, riskScore |-> 0]

\* The structured result the provider's JSON reply carries.
ProviderInsights == [riskFactors |-> <<"risk">>, recommendations |-> <<"advice">>, riskScore |-> 50]

\* A fallback that reports a middle risk score instead of 0.
extractStructuredInsightsMidScore(up) ==
    IF ProviderCall(up) = "json" THEN ProviderInsights
    ELSE [riskFactors |-> <<>>, recommendations |-> <<>>, riskScore |-> 50]

\* extractStructuredInsights: a failed call or unparsable reply gives the
\* empty result.
extractStructuredInsights(up) ==
    IF ProviderCall(up) = "json" THEN ProviderInsights ELSE EmptyInsights

\* What a service method did: its outcome, the value it returned and the
\* Patient collection afterwards.
Did(result, value, store) == [result |-> result, value |-> value, patients |-> store]

InsightsOf(structuredData) ==
    [riskFactors |-> structuredData.riskFactors,
     recommendations |-> structuredData.recommendations,
     overallRiskScore |-> structuredData.riskScore,
     lastAnalyzed |-> "now"]

\* A write that stores the document as it was read, with the new insights.
WriteInsightsOfSnapshot(store, patientId, snapshot, structuredData) ==
    IF patientId \notin DOMAIN store THEN store
    ELSE [store EXCEPT ![patientId] =
            [snapshot EXCEPT !.healthSummary = InsightsOf(structuredData)]]

\* Patient.findByIdAndUpdate(patientId, {'healthSummary.lastAnalyzed': ...,
\* 'healthSummary.riskFactors': ..., ...}): the four paths are set on the
\* stored document; a missing document is not created. snapshot is the lean
\* document read at the start, which the update does not use.
WriteInsights(store, patientId, snapshot, structuredData) ==
    IF patientId \notin DOMAIN store THEN store
    ELSE [store EXCEPT ![patientId].healthSummary = InsightsOf(structuredData)]

\* generatePatientSummary
generatePatientSummary(patientId, up1, up2) ==
    LET op == "generatePatientSummary"
        found == findById(patients, patientId)
        c == ProviderCall(up1)
        sent == (IF c = "throw" THEN 0 ELSE 1) + (IF ProviderCall(up2) = "throw" THEN 0 ELSE 1)
        structuredData == extractStructuredInsights(up2)
        failed(error) == Raised(op, patientId,
                                Rethrown(error, "Failed to generate patient summary"),
                                QueriesOf(found), 0)
    IN  IF found # "found" THEN Did(failed("Patient not found"), Null, patients)
        ELSE IF ~ProviderAnswered(c)
        THEN Did(WithCalls(failed(c), IF c = "throw" THEN 0 ELSE 1), Null, patients)
        ELSE Did(WithCalls(Returned(op, patientId, 2, 1), sent),
                 [summary |-> "text", structuredData |-> structuredData],
                 WriteInsights(patients, patientId, patients[patientId], structuredData))

\* The Doctor.find(searchCriteria) of suggestDoctors.
SuggestCandidates(patient, specialty) ==
    {d \in DOMAIN doctors :
        /\ doctors[d].isActive /\ doctors[d].isVerified /\ doctors[d].acceptingNewPatients
        /\ specialty # "" => specialty \in doctors[d].specializations
        /\ patient.zipCode # "" => doctors[d].zipCode = patient.zipCode}

\* suggestDoctors: the candidates are lean documents, which carry no schema
\* methods, so ranking a non-empty list throws on doctor.getSpecializationMatch.
suggestDoctors(patientId, specialty) ==
    LET op == "suggestDoctors"
        found == findById(patients, patientId)
        failed == Raised(op, patientId, "Failed to suggest doctors", QueriesOf(found), 0)
    IN  IF found # "found" THEN Did(failed, Null, patients)
        ELSE IF SuggestCandidates(patients[patientId], specialty) # {}
        THEN Did(Raised(op, patientId, "Failed to suggest doctors", 2, 0), Null, patients)
        ELSE Did(Returned(op, patientId, 2, 0), [recommendations |-> <<>>, totalFound |-> 0],
                 patients)

\* analyzeSymptoms: JSON.parse of the reply is inside the try block.
analyzeSymptoms(up) ==
    LET c == ProviderCall(up)
    IN  IF c = "json"
        THEN Did(WithCalls(Returned("analyzeSymptoms", "", 0, 0), 1),
                 [specialties |-> <<"any">>, urgency |-> "routine"], patients)
        ELSE Did(WithCalls(Raised("analyzeSymptoms", "", "Failed to analyze symptoms", 0, 0),
                           IF c = "throw" THEN 0 ELSE 1), Null, patients)

\* generateHealthInsights
generateHealthInsights(patientId, up) ==
    LET op == "generateHealthInsights"
        found == findById(patients, patientId)
        c == ProviderCall(up)
        failed == Raised(op, patientId, "Failed to generate health insights", QueriesOf(found), 0)
    IN  IF found # "found" THEN Did(failed, Null, patients)
        ELSE IF patients[patientId].vitalSigns < 2 THEN Did(failed, Null, patients)
        ELSE IF ~ProviderAnswered(c)
        THEN Did(WithCalls(failed, IF c = "throw" THEN 0 ELSE 1), Null, patients)
        ELSE Did(WithCalls(Returned(op, patientId, 1, 0), 1),
                 [insights |-> "text", trends |-> "trends"], patients)

\* generateMedicalSuggestions: the first keyword group the message mentions.
generateMedicalSuggestions(message) ==
    IF message \cap {"pain", "hurt"} # {} THEN "pain"
    ELSE IF message \cap {"medication", "prescription"} # {} THEN "medication"
    ELSE IF message \cap {"doctor", "appointment"} # {} THEN "doctor"
    ELSE "default"

\* The arguments of chatWithMedicalAI: the message with the words it mentions,
\* being a string or not, and the history with its number of turns, being an
\* array or not.
ChatMessage(isString, words) == [isString |-> isString, words |-> words]
ChatHistory(isArray, turns) == [isArray |-> isArray, turns |-> turns]

ChatApology == [message |-> "apology", suggestions |-> "default"]

\* A chat whose catch block throws again instead of answering.
chatWithMedicalAIRethrowing(message, conversationHistory, up) ==
    LET op == "chatWithMedicalAI"
        failed == Raised(op, "", "Failed to process medical chat request", 0, 0)
    IN  IF ~hasRealApiKey
        THEN IF ~message.isString THEN Did(failed, Null, patients)
             ELSE Did(Returned(op, "", 0, 0),
                      [message |-> "greeting",
                       suggestions |-> generateMedicalSuggestions(message.words)],
                      patients)
        ELSE IF ~conversationHistory.isArray THEN Did(failed, Null, patients)
        ELSE IF ProviderAnswered(up) /\ message.isString
        THEN Did(WithCalls(Returned(op, "", 0, 0), 1),
                 [message |-> "reply", suggestions |-> generateMedicalSuggestions(message.words)],
                 patients)
        ELSE Did(WithCalls(failed, 1), Null, patients)

\* chatWithMedicalAI: the greeting without a key, the provider's reply with
\* one, and the canned apology when anything inside throws: the provider
\* call, conversationHistory.forEach on a value that is no array, or
\* message.toLowerCase on a value that is no string.
chatWithMedicalAI(message, conversationHistory, up) ==
    LET op == "chatWithMedicalAI"
    IN  IF ~hasRealApiKey
        THEN IF ~message.isString THEN Did(Returned(op, "", 0, 0), ChatApology, patients)
             ELSE Did(Returned(op, "", 0, 0),
                      [message |-> "greeting",
                       suggestions |-> generateMedicalSuggestions(message.words)],
                      patients)
        ELSE IF ~conversationHistory.isArray
        THEN Did(Returned(op, "", 0, 0), ChatApology, patients)
        ELSE IF ProviderAnswered(up) /\ message.isString
        THEN Did(WithCalls(Returned(op, "", 0, 0), 1),
                 [message |-> "reply", suggestions |-> generateMedicalSuggestions(message.words)],
                 patients)
        ELSE Did(WithCalls(Returned(op, "", 0, 0), 1), ChatApology, patients)

\* The conditions generateDemoSummary looks for, in the order it reports them.
DemoConditions == <<"asthma", "diabetes", "hypertension", "kawasaki", "osteoporosis">>

\* Whether the lower-cased text mentions the condition; hypertension is also
\* triggered by 'blood pressure'.
Mentions(textContent, c) ==
    c \in textContent \/ (c = "hypertension" /\ "blood pressure" \in textContent)

\* generateDemoSummary: one finding per condition the text mentions, or the
\* generic finding when it mentions none.
generateDemoSummary(textContent) ==
    LET keyFindings == SelectSeq(DemoConditions, LAMBDA c : Mentions(textContent, c))
    IN  [summary |-> "demo",
         keyFindings |-> IF Len(keyFindings) > 0 THEN keyFindings ELSE <<"generic">>,
         riskFactors |-> IF Len(keyFindings) > 0 THEN keyFindings ELSE <<"generic">>,
         recommendations |-> IF Len(keyFindings) > 0 THEN keyFindings ELSE <<"generic">>]

\* generateHistorySummaryFromText
generateHistorySummaryFromText(textContent, up1, up2) ==
    LET op == "generateHistorySummaryFromText"
        failed == Raised(op, "", "Failed to generate history summary from text", 0, 0)
    IN  IF ~hasRealApiKey
        THEN Did(Returned(op, "", 0, 0), generateDemoSummary(textContent), patients)
        ELSE IF ~ProviderAnswered(up1) THEN Did(WithCalls(failed, 1), Null, patients)
        ELSE Did(WithCalls(Returned(op, "", 0, 0), 2),
                 [summary |-> "text",
                  keyFindings |-> IF up2 = "json" THEN <<"finding">> ELSE <<>>,
                  riskFactors |-> IF up2 = "json" THEN <<"risk">> ELSE <<>>,
                  recommendations |-> IF up2 = "json" THEN <<"advice">> ELSE <<>>],
                 patients)

\* A direct call of a service method.
ServiceCall(d) ==
    /\ res' = d.result
    /\ out' = d.value
    /\ patients' = d.patients
    /\ UNCHANGED <<openaiKey, mapsKey, inflight, ui, uploads, doctors, hospitals>>

PatientIdInputs == {"p1", "p2", "x9"}
SpecialtyInputs == {"", "Cardiology"}
MessageInputs == {{"hello"}, {"pain"}, {"prescription", "doctor"}, {"appointment"}}
ChatMessageInputs ==
    {ChatMessage(TRUE, words) : words \in MessageInputs} \cup {ChatMessage(FALSE, {})}
ChatHistoryInputs ==
    {ChatHistory(TRUE, 0), ChatHistory(TRUE, 2), ChatHistory(FALSE, 0)}
TextInputs == {{}, {"asthma"}, {"diabetes", "asthma"}, {"blood pressure", "kawasaki", "osteoporosis"}}

CallGeneratePatientSummary ==
    \E id \in PatientIdInputs, up1, up2 \in ProviderReplies :
        ServiceCall(generatePatientSummary(id, up1, up2))

CallSuggestDoctors ==
    \E id \in PatientIdInputs, specialty \in SpecialtyInputs :
        ServiceCall(suggestDoctors(id, specialty))

CallAnalyzeSymptoms == \E up \in ProviderReplies : ServiceCall(analyzeSymptoms(up))

CallGenerateHealthInsights ==
    \E id \in PatientIdInputs, up \in ProviderReplies :
        ServiceCall(generateHealthInsights(id, up))

CallChatWithMedicalAI ==
    \E message \in ChatMessageInputs, conversationHistory \in ChatHistoryInputs,
       up \in ProviderReplies :
        ServiceCall(chatWithMedicalAI(message, conversationHistory, up))

CallGenerateHistorySummaryFromText ==
    \E text \in TextInputs, up1, up2 \in ProviderReplies :
        ServiceCall(generateHistorySummaryFromText(text, up1, up2))

-----------------------------------------------------------------------------
(* AI routes with a :patientId parameter *)

\* A route that validates :patientId and hands the request to one service
\* method; a rejection reaches the error middleware.
AIRoute(op, id, d) ==
    IF ~validatePatientId([patientId |-> id])
    THEN /\ res' = Response(op, id, 400, "Invalid patient ID format", 0, 0)
         /\ out' = Null
         /\ UNCHANGED <<openaiKey, mapsKey, inflight, ui, uploads, patients, doctors, hospitals>>
    ELSE /\ \E status \in errorHandler("Error") :
             res' = IF d.result.status = -1
                    THEN WithCalls(ErrorResponse(op, id, d.result.message, d.result.queries, status),
                                   d.result.calls)
                    ELSE [d.result EXCEPT !.op = op, !.status = 200]
         /\ out' = d.value
         /\ patients' = d.patients
         /\ UNCHANGED <<openaiKey, mapsKey, inflight, ui, uploads, doctors, hospitals>>

\* POST /api/ai/patient-summary/:patientId
PostPatientSummary(id, up1, up2) ==
    AIRoute("POST /ai/patient-summary/:patientId", id, generatePatientSummary(id, up1, up2))

\* GET /api/ai/health-insights/:patientId
GetHealthInsights(id, up) ==
    AIRoute("GET /ai/health-insights/:patientId", id, generateHealthInsights(id, up))

-----------------------------------------------------------------------------
(* POST /api/ai/patient-history-summary *)

RequestIds == {"r1", "r2"}

UploadTexts == {{}, {"asthma"}}

\* Date.now() advances.
Tick ==
    /\ uploads.clock < MaxClock
    /\ uploads' = [uploads EXCEPT !.clock = @ + 1]
    /\ UNCHANGED <<openaiKey, mapsKey, inflight, ui, patients, doctors, hospitals, res, out>>

\* fs.unlinkSync(path) of an existing file
Unlink(files, path) == [p \in DOMAIN files \ {path} |-> files[p]]

\* A catch block that leaves the file where it is.
CleanUpSkipped(files, path) == files

\* The catch block: if (req.file && fs.existsSync(req.file.path)) unlinkSync
CleanUp(files, path) == IF path \in DOMAIN files THEN Unlink(files, path) ELSE files

HistoryOp == "POST /ai/patient-history-summary"

\* upload.single('historyFile'): the file is written to
\* uploads/patient-history-<Date.now()>.txt, replacing a file of that name.
\* Without a file the handler answers 400 at once.
ReceiveUpload(r, hasFile, text) ==
    /\ r \notin DOMAIN uploads.requests
    /\ IF hasFile
       THEN /\ uploads' = [uploads EXCEPT
                  !.files = (uploads.clock :> text) @@ @,
                  !.requests = (r :> [path |-> uploads.clock, pc |-> "stored",
                                      fileContent |-> {}]) @@ @]
            /\ UNCHANGED <<res, out>>
       ELSE /\ uploads' = [uploads EXCEPT
                  !.requests = (r :> [path |-> 0, pc |-> "done", fileContent |-> {}]) @@ @]
            /\ res' = Response(HistoryOp, r, 400, "No history file uploaded", 0, 0)
            /\ out' = Null
    /\ UNCHANGED <<openaiKey, mapsKey, inflight, ui, patients, doctors, hospitals>>

\* The handler up to its await: fs.readFileSync, then the call of
\* generateHistorySummaryFromText. A failed read goes to the catch block.
HandlerStart(r, readable) ==
    /\ r \in DOMAIN uploads.requests
    /\ uploads.requests[r].pc = "stored"
    /\ LET path == uploads.requests[r].path
       IN  IF path \notin DOMAIN uploads.files \/ ~readable
           THEN /\ uploads' = [uploads EXCEPT !.files = CleanUp(@, path),
                                              !.requests[r].pc = "done"]
                /\ res' = Response(HistoryOp, r, 500,
                                   "Failed to process patient history file", 0, 0)
                /\ out' = Null
           ELSE /\ uploads' = [uploads EXCEPT
                      !.requests[r].pc = "awaiting",
                      !.requests[r].fileContent = uploads.files[path]]
                /\ UNCHANGED <<res, out>>
    /\ UNCHANGED <<openaiKey, mapsKey, inflight, ui, patients, doctors, hospitals>>

\* The handler after its await: the summary arrived or the call was
\* rejected; fs.unlinkSync, whose failure also goes to the catch block; the
\* response.
HandlerFinish(r, up1, up2) ==
    /\ r \in DOMAIN uploads.requests
    /\ uploads.requests[r].pc = "awaiting"
    /\ LET path == uploads.requests[r].path
           d == generateHistorySummaryFromText(uploads.requests[r].fileContent, up1, up2)
           failed == WithCalls(Response(HistoryOp, r, 500,
                                   "Failed to process patient history file", 0, 0),
                               d.result.calls)
       IN  IF d.result.status = -1 \/ path \notin DOMAIN uploads.files
           THEN /\ uploads' = [uploads EXCEPT !.files = CleanUp(@, path),
                                              !.requests[r].pc = "done"]
                /\ res' = failed
                /\ out' = Null
           ELSE /\ uploads' = [uploads EXCEPT !.files = Unlink(@, path),
                                              !.requests[r].pc = "done"]
                /\ res' = WithCalls(Response(HistoryOp, r, 200, "", 0, 0), d.result.calls)
                /\ out' = d.value
    /\ UNCHANGED <<openaiKey, mapsKey, inflight, ui, patients, doctors, hospitals>>

-----------------------------------------------------------------------------
(* The application: the routes and the seed script over the three stores *)

Start == Returned("start", "", 0, 0)

ContactInputs == SeqUpTo(BOOLEAN, 2)
RatingInputs == {-1, 0, 1, 5, 6}

\* The keys the application is run with: none, or real ones.
AppOpenAIKeys == {k \in OpenAIKeys : ~k.present \/ (k.sk /\ ~k.placeholder)}
AppMapsKeys == {k \in MapsKeys : ~k.placeholder}

OriginInputs == {Location(0, "", "", ""), Location(-1, "chicago", "", "")}

EmptyStores ==
    /\ patients = <<>>
    /\ doctors = <<>>
    /\ hospitals = <<>>
    /\ res = Start
    /\ out = Null
    /\ uploads = NoUploads
    /\ inflight = NoInflight
    /\ ui = NoUi

\* The accounts side of the application: seed, auth, patient, doctor and
\* AI routes.
Init ==
    /\ openaiKey \in AppOpenAIKeys
    /\ mapsKey = NoMapsKey
    /\ EmptyStores

Next ==
    \/ seedDatabase
    \/ \E email \in Emails : RegisterPatient(email)
    \/ \E email \in Emails, hasPassword \in BOOLEAN, userType \in UserTypes :
           Login(email, hasPassword, userType)
    \/ \E id \in IdInputs : GetPatient(id)
    \/ \E id \in IdInputs, contacts \in ContactInputs :
           PutPatient(id, [emergencyContacts |-> contacts])
    \/ \E id \in IdInputs : GetDoctor(id)
    \/ \E id \in IdInputs : GetDoctorAvailability(id)
    \/ \E id \in IdInputs, up1, up2 \in ProviderReplies : PostPatientSummary(id, up1, up2)
    \/ \E id \in IdInputs, up \in ProviderReplies : GetHealthInsights(id, up)

Spec == Init /\ [][Next]_vars

\* The hospital side: seed and the hospital routes keyed by id.
InitHospital ==
    /\ openaiKey = NoKey
    /\ mapsKey \in AppMapsKeys
    /\ EmptyStores

NextHospital ==
    \/ seedDatabase
    \/ \E id \in IdInputs : GetHospital(id)
    \/ \E id \in IdInputs : GetHospitalCapacity(id)
    \/ \E id \in IdInputs : GetHospitalDepartments(id)
    \/ \E id \in IdInputs : GetHospitalReviews(id)
    \/ \E id \in IdInputs, hasOrigin \in BOOLEAN, origin \in OriginInputs, up1, up2 \in Upstream :
           PostHospitalDirections(id, hasOrigin, origin, up1, up2, 0)
    \/ \E id \in IdInputs, hasRating \in BOOLEAN, rating \in RatingInputs :
           PostHospitalReview(id, hasRating, rating)

SpecHospital == InitHospital /\ [][NextHospital]_vars

\* The locator over stores of any content: the seeded hospitals and doctors
\* with the flags, ICU beds and emergency services of one hospital and the
\* flags of its doctor drawn freely.
IcuInputs == {<<>>, <<0>>, <<3>>}

ServiceInputs ==
    {<<>>,
     sampleHospitals.h1.emergencyServices,
     <<EmergencyService("Stroke Care", 5)>>,
     <<[EmergencyService("Trauma Center", 15) EXCEPT !.isAvailable = FALSE],
       EmergencyService("Stroke Care", 5)>>}

HospitalVariants(base) ==
    {[base EXCEPT !.isActive = a, !.isVerified = v, !.is24Hours = t, !.icu = icu,
                  !.emergencyServices = s] :
        a \in BOOLEAN, v \in BOOLEAN, t \in BOOLEAN, icu \in IcuInputs, s \in ServiceInputs}

DoctorVariants(base) ==
    {[base EXCEPT !.isActive = a] : a \in BOOLEAN}

InitLocator ==
    /\ openaiKey = NoKey
    /\ mapsKey \in AppMapsKeys
    /\ patients = <<>>
    /\ doctors \in {[sampleDoctors EXCEPT !.d1 = v] : v \in DoctorVariants(sampleDoctors.d1)}
    /\ hospitals \in {[sampleHospitals EXCEPT !.h1 = v] : v \in HospitalVariants(sampleHospitals.h1)}
    /\ res = Start
    /\ out = Null
    /\ uploads = NoUploads
    /\ inflight = NoInflight
    /\ ui = NoUi

NextLocator ==
    \/ CallFindNearbyHospitals
    \/ CallFindEmergencyHospitals
    \/ CallFindSpecialists
    \/ CallFindSpecialistsInHospital
    \/ CallSearchHospitalsByName
    \/ CallGetDirections
    \/ CallResolveCoordinates
    \/ \E hasCoords \in BOOLEAN, latitude \in Positions, urgencyLevel \in UrgencyInputs,
          radius \in {1500, 50000}, up \in Upstream :
           PostEmergency(hasCoords, latitude, urgencyLevel, radius, up)

SpecLocator == InitLocator /\ [][NextLocator]_vars

-----------------------------------------------------------------------------
(* The save hooks over documents of any content *)

ReviewInputs == [rating : {1, 2, 5}, isPublic : BOOLEAN]

\* The derived fields a stored doctor document can hold before a save.
PriorRatings == {<<0, 0>>, <<48, 124>>}

\* One patient with any list of contacts, or one doctor with any list of
\* reviews and any prior derived fields, as a direct insert leaves them.
InitSave ==
    /\ openaiKey = NoKey
    /\ mapsKey = NoMapsKey
    /\ hospitals = <<>>
    /\ \/ /\ patients \in {[samplePatients EXCEPT !.p1.emergencyContacts = c] :
                              c \in SeqUpTo(BOOLEAN, MaxContacts)}
          /\ doctors = <<>>
       \/ /\ patients = <<>>
          /\ doctors \in {[d1 |-> [sampleDoctors.d1 EXCEPT !.reviews = r,
                                       !.averageRating = p[1], !.totalReviews = p[2]]] :
                              r \in SeqUpTo(ReviewInputs, MaxReviews), p \in PriorRatings}
    /\ res = Start
    /\ out = Null
    /\ uploads = NoUploads
    /\ inflight = NoInflight
    /\ ui = NoUi

\* doctor.addReview(...): push the review, then save.
AddDoctorReview(id, rating) ==
    /\ id \in DOMAIN doctors
    /\ Len(doctors[id].reviews) < MaxReviews + 1
    /\ doctors' = [doctors EXCEPT ![id] = DoctorWithReview(@, rating)]
    /\ res' = Returned("addReview", id, 0, 1)
    /\ out' = [before |-> doctors[id]]
    /\ UNCHANGED <<openaiKey, mapsKey, inflight, ui, uploads, patients, hospitals>>

NextSave ==
    \/ \E email \in Emails, hasPassword \in BOOLEAN, userType \in UserTypes :
           Login(email, hasPassword, userType)
    \/ \E id \in DoctorIds, rating \in {1, 4} : AddDoctorReview(id, rating)

SpecSave == InitSave /\ [][NextSave]_vars

-----------------------------------------------------------------------------
(* The AI service called directly, under every kind of key *)

\* The seeded stores and one registered patient without vital signs.
InitAI ==
    /\ openaiKey \in OpenAIKeys
    /\ mapsKey = NoMapsKey
    /\ patients = samplePatients @@ [p2 |-> NewPatient("ann")]
    /\ doctors \in {sampleDoctors, [d \in {"d2", "d3"} |-> sampleDoctors[d]]}
    /\ hospitals = sampleHospitals
    /\ res = Start
    /\ out = Null
    /\ uploads = NoUploads
    /\ inflight = NoInflight
    /\ ui = NoUi

NextAI ==
    \/ CallGeneratePatientSummary
    \/ CallSuggestDoctors
    \/ CallAnalyzeSymptoms
    \/ CallGenerateHealthInsights
    \/ CallChatWithMedicalAI
    \/ CallGenerateHistorySummaryFromText

SpecAI == InitAI /\ [][NextAI]_vars

-----------------------------------------------------------------------------
(* Properties *)

IsPrimary(c) == c

PrimaryCount(contacts) == Count(contacts, IsPrimary)

AIServiceOps ==
    {"generatePatientSummary", "suggestDoctors", "analyzeSymptoms",
     "generateHealthInsights", "chatWithMedicalAI", "generateHistorySummaryFromText"}

\* The last AI-service call was made with valid input: an existing patient,
\* and for the insights at least two vital-sign readings.
ValidAIInput ==
    /\ res.op \in {"generatePatientSummary", "suggestDoctors", "generateHealthInsights"} =>
           res.id \in DOMAIN patients
    /\ res.op = "generateHealthInsights" => patients[res.id].vitalSigns >= 2

\* C1: without a valid OPENAI_API_KEY every AI-service method called with
\* valid input returns a result instead of raising.
C1_FallbackWithoutKey ==
    (~hasRealApiKey /\ res.op \in AIServiceOps /\ ValidAIInput) => res.status = 0

LocatorOps ==
    {"findNearbyHospitals", "findEmergencyHospitals", "findSpecialists",
     "findSpecialistsInHospital", "searchHospitalsByName"}

\* C2: no locator operation returns a hospital or doctor record, in its
\* result list or embedded in a result, whose isActive flag is false.
C2_OnlyActiveRecords ==
    res.op \in LocatorOps =>
        /\ \A h \in Range(out.hospitals) \cup out.populatedHospitals : hospitals[h].isActive
        /\ \A d \in Range(out.doctors) \cup out.populatedDoctors : doctors[d].isActive

PatientSavedByLogin ==
    res.op = "POST /auth/login" /\ res.status = 200 /\ res.id \in DOMAIN patients

\* C4: for every list of emergency contacts, after the pre-save hook at most
\* one entry is primary, and every entry that was not primary before is still
\* not primary.
C4_PreSaveNormalizes ==
    PatientSavedByLogin =>
        LET before == out.before.emergencyContacts
            after == patients[res.id].emergencyContacts
        IN  /\ PrimaryCount(after) <= 1
            /\ DOMAIN after = DOMAIN before
            /\ \A i \in DOMAIN before : ~before[i] => ~after[i]

\* A patient whose list held several primary contacts, the first entry not
\* being one of them, has been saved.
C4_Witness ==
    /\ PatientSavedByLogin
    /\ PrimaryCount(out.before.emergencyContacts) > 1
    /\ ~out.before.emergencyContacts[1]

\* The last operation saved a doctor.
DoctorSavedByLastOp ==
    /\ res.op \in {"POST /auth/login", "addReview"}
    /\ res.status \in {0, 200}
    /\ res.id \in DOMAIN doctors

\* C5: after every save of a doctor, totalReviews is the number of public
\* reviews and averageRating their mean rounded to one decimal, both 0 when
\* there is no public review, whatever the fields held before.
C5_DerivedRatingAfterSave ==
    DoctorSavedByLastOp =>
        LET d == doctors[res.id]
            publicReviews == SelectSeq(d.reviews, LAMBDA r : r.isPublic)
            n == Len(publicReviews)
            total == SumSeq([i \in DOMAIN publicReviews |-> publicReviews[i].rating])
        IN  /\ d.totalReviews = n
            /\ d.averageRating = IF n = 0 THEN 0 ELSE ToFixed1(total, n)

\* C6: POST /hospitals/:id/reviews with a rating that is missing, below 1 or
\* above 5 answers 400 'Rating must be between 1 and 5', sends no query and
\* leaves every hospital document as it was.
C6_BadRatingRejectedFirst ==
    [][(/\ res'.op = "POST /hospitals/:id/reviews"
        /\ (~out'.hasRating \/ out'.rating < 1 \/ out'.rating > 5))
       => (/\ res'.status = 400
           /\ res'.message = "Rating must be between 1 and 5"
           /\ res'.queries = 0
           /\ res'.writes = 0
           /\ hospitals' = hospitals)]_vars

\* A review with rating 6 for a stored hospital has been rejected.
C6_Witness ==
    /\ res.op = "POST /hospitals/:id/reviews"
    /\ res.id \in DOMAIN hospitals
    /\ out.hasRating /\ out.rating > 5
    /\ res.status = 400

HospitalIdRouteOps ==
    {"GET /hospitals/:id", "GET /hospitals/:id/capacity", "GET /hospitals/:id/departments",
     "GET /hospitals/:id/reviews", "POST /hospitals/:id/reviews",
     "POST /hospitals/:id/directions"}

\* C7: every hospital route keyed by id, asked with a well-formed id that
\* matches no hospital (a valid rating for the review, an origin for the
\* directions), answers 404.
C7_UnknownHospitalIs404 ==
    (/\ res.op \in HospitalIdRouteOps
     /\ IsValidObjectId(res.id)
     /\ res.id \notin DOMAIN hospitals
     /\ res.op = "POST /hospitals/:id/reviews" =>
            (out.hasRating /\ out.rating >= 1 /\ out.rating <= 5)
     /\ res.op = "POST /hospitals/:id/directions" => out.hasOrigin)
    => res.status = 404

IdRouteOps ==
    HospitalIdRouteOps \cup
    {"GET /patients/:id", "PUT /patients/:id", "GET /doctors/:id",
     "GET /doctors/:id/availability", "POST /ai/patient-summary/:patientId",
     "GET /ai/health-insights/:patientId"}

\* C8: every route with a record id in its path answers a syntactically
\* invalid id with 400 and sends no database query.
C8_MalformedIdIs400 ==
    (res.op \in IdRouteOps /\ ~IsValidObjectId(res.id)) =>
        (res.status = 400 /\ res.queries = 0)

\* C9: GET and PUT /patients/:id, GET /doctors/:id and
\* GET /doctors/:id/availability asked with a valid id reach their handler:
\* the answer is 200 or 404, never the 400 of the id validation.
C9_ValidIdReachesHandler ==
    (/\ res.op \in {"GET /patients/:id", "PUT /patients/:id", "GET /doctors/:id",
                    "GET /doctors/:id/availability"}
     /\ IsValidObjectId(res.id))
    => res.status \in {200, 404}

\* The last operation was an emergency search asked with urgencyLevel
\* 'critical' that answered with facilities.
CriticalEmergencySearch ==
    /\ \/ res.op = "findEmergencyHospitals" /\ res.status = 0
       \/ res.op = "POST /hospitals/emergency" /\ res.status = 200
    /\ res.id = "critical"

\* C10: an emergency search with urgencyLevel 'critical' returns no facility
\* whose bedCount.icu is 0 or unset, and every facility it returns offers
\* Trauma Center, Critical Care or Cardiac Emergency.
C10_CriticalNeedsIcuAndService ==
    CriticalEmergencySearch =>
        \A i \in DOMAIN out.facilities :
            /\ out.facilities[i].icu # <<>>
            /\ out.facilities[i].icu[1] > 0
            /\ out.facilities[i].services \cap CriticalServices # {}

\* The wait times of a hospital's emergency services, summed, and their number.
TotalWait(h) ==
    SumSeq([i \in DOMAIN hospitals[h].emergencyServices |->
                hospitals[h].emergencyServices[i].averageWaitTime])

ServiceCount(h) == Len(hospitals[h].emergencyServices)

\* The average emergency wait time of hospital a is at most that of b.
AverageWaitAtMost(a, b) == TotalWait(a) * ServiceCount(b) <= TotalWait(b) * ServiceCount(a)

\* C11: findEmergencyHospitals returns at most 10 hospitals, all open round
\* the clock, in order of non-decreasing average emergency wait time, and
\* recommendedHospital is the first of them, null exactly when there is none.
C11_EmergencyListOrdered ==
    (res.op = "findEmergencyHospitals" /\ res.status = 0) =>
        /\ Len(out.hospitals) <= 10
        /\ \A i \in DOMAIN out.hospitals : hospitals[out.hospitals[i]].is24Hours
        /\ \A i, j \in DOMAIN out.hospitals :
               i < j => AverageWaitAtMost(out.hospitals[i], out.hospitals[j])
        /\ out.recommendedHospital = IF out.hospitals = <<>> THEN Null ELSE out.hospitals[1]

-----------------------------------------------------------------------------
(* The history-summary route with requests in flight together *)

InitUpload ==
    /\ openaiKey \in AppOpenAIKeys
    /\ mapsKey = NoMapsKey
    /\ EmptyStores

NextUpload ==
    \/ Tick
    \/ \E r \in RequestIds, hasFile \in BOOLEAN, text \in UploadTexts :
           ReceiveUpload(r, hasFile, text)
    \/ \E r \in RequestIds, readable \in BOOLEAN : HandlerStart(r, readable)
    \/ \E r \in RequestIds, up1, up2 \in ProviderReplies : HandlerFinish(r, up1, up2)

SpecUpload == InitUpload /\ [][NextUpload]_vars

\* Request r receives its response in this step.
Responds(r) ==
    /\ r \in DOMAIN uploads'.requests
    /\ uploads'.requests[r].pc = "done"
    /\ r \in DOMAIN uploads.requests => uploads.requests[r].pc # "done"

\* C12: when the handler of an accepted upload sends its response, 200 or
\* 500, the file stored for the request is no longer on disk.
C12_UploadRemovedAtResponse ==
    [][\A r \in RequestIds :
          (Responds(r) /\ uploads'.requests[r].path # 0) =>
              /\ res'.id = r
              /\ res'.status \in {200, 500}
              /\ uploads'.requests[r].path \notin DOMAIN uploads'.files]_vars

\* A request whose summarisation failed at the provider has been answered 500.
C12_Witness ==
    /\ res.op = HistoryOp
    /\ res.status = 500
    /\ res.calls = 1
    /\ uploads.requests[res.id].pc = "done"
    /\ uploads.requests[res.id].path \notin DOMAIN uploads.files

\* C13: in generatePatientSummary, when the summary call succeeds and the
\* extraction call fails or replies with text that is not JSON, the call
\* still returns, structuredData is the empty result with score 0, and just
\* those values are written to the patient's healthSummary.
C13_ExtractionFallback ==
    [][\A id \in PatientIdInputs, up1 \in {"json", "text"}, up2 \in {"text", "fail"} :
          (/\ hasRealApiKey
           /\ id \in DOMAIN patients
           /\ ServiceCall(generatePatientSummary(id, up1, up2)))
          => (/\ res'.status = 0
              /\ out'.structuredData =
                     [riskFactors |-> <<>>, recommendations |-> <<>>, riskScore |-> 0]
              /\ patients'[id].healthSummary.riskFactors = <<>>
              /\ patients'[id].healthSummary.recommendations = <<>>
              /\ patients'[id].healthSummary.overallRiskScore = 0
              /\ \A p \in DOMAIN patients \ {id} : patients'[p] = patients[p])]_vars

\* The seeded patient's summary was generated with a failed extraction: the
\* stored risk factors were replaced by the empty result.
C13_Witness ==
    /\ res.op = "generatePatientSummary"
    /\ res.status = 0
    /\ res.id = "p1"
    /\ res.calls = 2
    /\ out.structuredData.riskScore = 0
    /\ patients["p1"].healthSummary.riskFactors = <<>>
    /\ patients["p1"].healthSummary.lastAnalyzed = "now"

\* The last call asked for the insights of a missing patient or of one with
\* fewer than two vital-sign readings.
InsufficientVitals ==
    /\ res.op = "generateHealthInsights"
    /\ res.id \in DOMAIN patients => patients[res.id].vitalSigns < 2

\* C14: generateHealthInsights for a missing patient or one with fewer than
\* two vitalSigns entries raises the insufficient-data error and sends no
\* provider request.
C14_InsufficientDataError ==
    InsufficientVitals =>
        /\ res.status = -1
        /\ res.calls = 0
        /\ res.message = "Insufficient data for trend analysis"

\* C15: one call of findNearbyHospitals, findEmergencyHospitals,
\* getDirections or searchHospitalsByName sends at most one HTTP request to
\* the geocoding / directions provider.
C15_SingleUpstreamCall ==
    res.op \in {"findNearbyHospitals", "findEmergencyHospitals", "getDirections",
                "searchHospitalsByName"}
    => res.calls <= 1

-----------------------------------------------------------------------------
(* POST /api/hospitals/nearby *)

\* The demo hospitals in the order of the table, distance in metres.
DemoHospitals ==
    <<[id |-> "demo_hospital_1", distance |-> 1200],
      [id |-> "demo_hospital_2", distance |-> 2100],
      [id |-> "demo_hospital_3", distance |-> 3400],
      [id |-> "demo_hospital_4", distance |-> 2800]>>

\* generateDemoHospitals: distance (km) <= radius / 1000, nearest first.
generateDemoHospitals(radius) ==
    LET kept == {i \in DOMAIN DemoHospitals : DemoHospitals[i].distance <= radius}
        sorted == SortIds(kept, [i \in kept |-> DemoHospitals[i].distance], <<1, 2, 3, 4>>)
    IN  [k \in DOMAIN sorted |-> DemoHospitals[sorted[k]]]

DefaultNearbyRadius == 25000

\* What the request body carried, kept beside the response's data.
NearbyRequest(hasCoords, latitude, longitude, radius) ==
    [hasCoords |-> hasCoords, latitude |-> latitude, longitude |-> longitude,
     radius |-> radius]

\* POST /api/hospitals/nearby. '!latitude || !longitude' is true of a missing
\* coordinate and of 0. The Places answer is mapped and sorted by distance;
\* an upstream failure or an answer without results is answered 500.
NearbyResponse(hasCoords, latitude, longitude, hasRadius, radiusIn, up) ==
    LET op == "POST /hospitals/nearby"
        radius == IF hasRadius THEN radiusIn ELSE DefaultNearbyRadius
        request == NearbyRequest(hasCoords, latitude, longitude, radius)
        demoHospitals == generateDemoHospitals(radius)
        answer(list, demoMode) ==
            [request |-> request, hospitals |-> list, totalFound |-> Len(list),
             demoMode |-> demoMode]
    IN  IF ~hasCoords \/ latitude = 0 \/ longitude = 0
        THEN [res |-> Response(op, "", 400, "Latitude and longitude are required", 0, 0),
              out |-> [request |-> request]]
        ELSE IF ~routeHasRealApiKey
        THEN [res |-> Response(op, "", 200, "", 0, 0), out |-> answer(demoHospitals, TRUE)]
        ELSE IF up = "ok"
        THEN [res |-> WithCalls(Response(op, "", 200, "", 0, 0), 1),
              out |-> answer(PlacesResults, FALSE)]
        ELSE [res |-> WithCalls(Response(op, "", 500,
                                         Rethrown(up, "Failed to find nearby hospitals"), 0, 0), 1),
              out |-> [request |-> request]]

PostNearby(hasCoords, latitude, longitude, hasRadius, radiusIn, up) ==
    LET r == NearbyResponse(hasCoords, latitude, longitude, hasRadius, radiusIn, up)
    IN  /\ res' = r.res
        /\ out' = r.out
        /\ UNCHANGED <<openaiKey, mapsKey, inflight, ui, uploads, patients, doctors, hospitals>>

\* The Places-backed routes under every state of the mapping credential.
LatitudeInputs == {0, 40, 41}
LongitudeInputs == {0, -74, -73}
NearbyRadiusInputs == {0, 1000, 1200, 2500, 2800, 10000}
EmergencyRadiusInputs == {1000, 2000, 50000}

InitPlaces ==
    /\ openaiKey = NoKey
    /\ mapsKey \in MapsKeys
    /\ EmptyStores

NextPlaces ==
    \/ \E hasCoords, hasRadius \in BOOLEAN, latitude \in LatitudeInputs,
          longitude \in LongitudeInputs, radius \in NearbyRadiusInputs, up \in Upstream :
           PostNearby(hasCoords, latitude, longitude, hasRadius, radius, up)
    \/ \E hasCoords \in BOOLEAN, latitude \in LatitudeInputs, urgencyLevel \in UrgencyInputs,
          radius \in EmergencyRadiusInputs, up \in Upstream :
           PostEmergency(hasCoords, latitude, urgencyLevel, radius, up)

SpecPlaces == InitPlaces /\ [][NextPlaces]_vars

NearbyAnswered == res.op = "POST /hospitals/nearby"

\* C17: POST /hospitals/nearby with latitude and longitude supplied and no
\* usable mapping credential answers 200 in demo mode with exactly the demo
\* hospitals whose distance is <= radius/1000 km, nearest first, totalFound
\* being the length of that list, and sends no upstream request.
C17_DemoNearby ==
    (NearbyAnswered /\ out.request.hasCoords /\ ~routeHasRealApiKey)
    => /\ res.status = 200
       /\ res.calls = 0
       /\ out.demoMode
       /\ {out.hospitals[i] : i \in DOMAIN out.hospitals}
            = {DemoHospitals[i] : i \in {j \in DOMAIN DemoHospitals :
                                           DemoHospitals[j].distance <= out.request.radius}}
       /\ \A i, j \in DOMAIN out.hospitals :
            i < j => out.hospitals[i].distance < out.hospitals[j].distance
       /\ out.totalFound = Len(out.hospitals)

\* The demo answer as it is given for coordinates that are both other than 0.
DemoNearbyOffAxes ==
    (NearbyAnswered /\ out.request.hasCoords /\ ~routeHasRealApiKey
        /\ out.request.latitude # 0 /\ out.request.longitude # 0)
    => /\ res.status = 200
       /\ res.calls = 0
       /\ out.demoMode
       /\ {out.hospitals[i] : i \in DOMAIN out.hospitals}
            = {DemoHospitals[i] : i \in {j \in DOMAIN DemoHospitals :
                                           DemoHospitals[j].distance <= out.request.radius}}
       /\ \A i, j \in DOMAIN out.hospitals :
            i < j => out.hospitals[i].distance < out.hospitals[j].distance
       /\ out.totalFound = Len(out.hospitals)

-----------------------------------------------------------------------------
(* Provider failures: the same request run twice against a provider whose
   errors differ in content only. *)

UpstreamErrors == {"ECONNREFUSED", "REQUEST_DENIED"}

UpstreamOutcomes == {"ok"} \cup UpstreamErrors

ProviderOutcomes == {"json", "text"} \cup UpstreamErrors

\* Two outcomes of one request that differ, if at all, in the error's content.
SameUpToError(u, v) == u = v \/ ({u, v} \cap {"ok", "json", "text"} = {})

Twin(result, twin, errors) ==
    /\ res' = result
    /\ out' = [twin |-> twin, errors |-> errors]

TwinGetDirections ==
    \E origin \in LocationInputs, id \in {"h1", "x9"},
       a1, a2, b1, b2 \in UpstreamOutcomes :
        /\ SameUpToError(a1, a2) /\ SameUpToError(b1, b2)
        /\ Twin(getDirections(origin, id, a1, b1, 0), getDirections(origin, id, a2, b2, 0),
                <<a1, b1, a2, b2>>)
        /\ UNCHANGED <<openaiKey, mapsKey, inflight, ui, uploads, patients, doctors, hospitals>>

TwinFindNearbyHospitals ==
    \E location \in LocationInputs, a1, a2 \in UpstreamOutcomes :
        /\ SameUpToError(a1, a2)
        /\ Twin(findNearbyHospitals(location, NearbyOptions(25, 20, "", FALSE), a1, 0).result,
                findNearbyHospitals(location, NearbyOptions(25, 20, "", FALSE), a2, 0).result,
                <<a1, a2>>)
        /\ UNCHANGED <<openaiKey, mapsKey, inflight, ui, uploads, patients, doctors, hospitals>>

TwinGeneratePatientSummary ==
    \E patientId \in {"p1", "x9"}, a1, a2 \in ProviderOutcomes, b \in {"json", "fail"} :
        /\ SameUpToError(a1, a2)
        /\ Twin(generatePatientSummary(patientId, a1, b).result,
                generatePatientSummary(patientId, a2, b).result, <<a1, b, a2, b>>)
        /\ patients' = generatePatientSummary(patientId, a1, b).patients
        /\ UNCHANGED <<openaiKey, mapsKey, inflight, ui, uploads, doctors, hospitals>>

TwinPostNearby ==
    \E latitude \in LatitudeInputs, hasRadius \in BOOLEAN, a1, a2 \in UpstreamOutcomes :
        /\ SameUpToError(a1, a2)
        /\ Twin(NearbyResponse(TRUE, latitude, -74, hasRadius, 2500, a1).res,
                NearbyResponse(TRUE, latitude, -74, hasRadius, 2500, a2).res, <<a1, a2>>)
        /\ UNCHANGED <<openaiKey, mapsKey, inflight, ui, uploads, patients, doctors, hospitals>>

InitFailure ==
    /\ openaiKey \in OpenAIKeys
    /\ mapsKey \in MapsKeys
    /\ patients = samplePatients
    /\ doctors = sampleDoctors
    /\ hospitals = sampleHospitals
    /\ res = Start
    /\ out = Null
    /\ uploads = NoUploads
    /\ inflight = NoInflight
    /\ ui = NoUi

NextFailure ==
    \/ TwinGetDirections
    \/ TwinFindNearbyHospitals
    \/ TwinGeneratePatientSummary
    \/ TwinPostNearby

SpecFailure == InitFailure /\ [][NextFailure]_vars

TwinOps ==
    {"getDirections", "findNearbyHospitals", "generatePatientSummary", "POST /hospitals/nearby"}

GenericMessages ==
    {"Failed to get directions", "Failed to find nearby hospitals",
     "Failed to generate patient summary"}

\* C16: when a provider call fails, the error of the service method and the
\* response of the route carry one of the fixed 'Failed to ...' messages, and
\* two runs that differ only in the content of the provider's error show the
\* caller the same status and message.
C16_GenericFailureMessage ==
    res.op \in TwinOps
    => /\ res.status = out.twin.status
       /\ res.message = out.twin.message
       /\ res.status \in {-1, 500} => res.message \in GenericMessages

\* A directions request and its twin failed with errors of different content.
C16_Witness ==
    /\ res.op = "getDirections"
    /\ res.status = -1
    /\ res.calls = 1
    /\ out.errors[2] \in UpstreamErrors
    /\ out.errors[4] \in UpstreamErrors
    /\ out.errors[2] # out.errors[4]

ChatAnswers == {"greeting", "reply", "apology"}

\* C18: chatWithMedicalAI never raises: whatever the message, the history,
\* the credential and the provider's outcome, it returns a message with
\* suggestions; and the call leaves every store as it was.
C18_ChatNeverRaises ==
    [][res'.op = "chatWithMedicalAI"
        => /\ res'.status = 0
           /\ out'.message \in ChatAnswers
           /\ out'.suggestions \in {"pain", "medication", "doctor", "default"}
           /\ UNCHANGED <<patients, doctors, hospitals, uploads>>]_vars

\* The provider was asked and the chat answered with the canned apology.
C18_Witness ==
    /\ res.op = "chatWithMedicalAI"
    /\ res.calls = 1
    /\ out = ChatApology

-----------------------------------------------------------------------------
(* Hospital virtual occupancyRate *)

MaxBeds == 8

\* A stored number field: <<>> when unset, <<n>> when set.
BedNumbers == {<<>>} \cup {<<n>> : n \in 0..MaxBeds}

Falsy(field) == field = <<>> \/ field[1] = 0

\* Math.round(x / y) for y > 0: halves go up.
RoundDiv(x, y) == (2 * x + y) \div (2 * y)

\* An occupancy rate that takes no available bed for a full house.
occupancyRateOfFullHouse(bedCount) ==
    IF Falsy(bedCount.total) \/ bedCount.available = <<>> THEN <<>>
    ELSE <<RoundDiv((bedCount.total[1] - bedCount.available[1]) * 100, bedCount.total[1])>>

\* hospitalSchema.virtual('occupancyRate'): <<>> stands for null.
occupancyRate(bedCount) ==
    IF Falsy(bedCount.total) \/ Falsy(bedCount.available) THEN <<>>
    ELSE <<RoundDiv((bedCount.total[1] - bedCount.available[1]) * 100, bedCount.total[1])>>

\* Reading the virtual of a hospital whose bed count is in out.
ReadOccupancyRate ==
    /\ res.op = "start"
    /\ res' = Returned("occupancyRate", "", 0, 0)
    /\ out' = [bedCount |-> out.bedCount, occupancyRate |-> occupancyRate(out.bedCount)]
    /\ UNCHANGED <<openaiKey, mapsKey, inflight, ui, uploads, patients, doctors, hospitals>>

InitOccupancy ==
    /\ openaiKey = NoKey
    /\ mapsKey = NoMapsKey
    /\ patients = <<>>
    /\ doctors = <<>>
    /\ hospitals = <<>>
    /\ uploads = NoUploads
    /\ inflight = NoInflight
    /\ ui = NoUi
    /\ res = Start
    /\ out \in [bedCount : [total : BedNumbers, available : BedNumbers]]

SpecOccupancy == InitOccupancy /\ [][ReadOccupancyRate]_vars

\* C19: occupancyRate is null when bedCount.total or bedCount.available is
\* unset or 0, and otherwise the percentage of occupied beds rounded to the
\* nearest whole number, halves up.
C19_OccupancyRate ==
    res.op = "occupancyRate"
    => LET total == out.bedCount.total
           available == out.bedCount.available
           rate == out.occupancyRate
       IN  IF total \in {<<>>, <<0>>} \/ available \in {<<>>, <<0>>}
           THEN rate = <<>>
           ELSE /\ rate # <<>>
                /\ (2 * rate[1] - 1) * total[1] <= 200 * (total[1] - available[1])
                /\ 200 * (total[1] - available[1]) < (2 * rate[1] + 1) * total[1]

\* One bed of eight is taken: 12.5 per cent, reported as 13.
C19_Witness ==
    /\ res.op = "occupancyRate"
    /\ out.bedCount = [total |-> <<8>>, available |-> <<7>>]
    /\ out.occupancyRate = <<13>>

NoLocationForm(l) == l.coordinates = -1 /\ l.address = "" /\ l.zipCode = "" /\ l.str = ""

LocationUnresolved == "Unable to resolve coordinates from location"

\* resolveCoordinates by itself: coordinates come back as given without a
\* geocoding request, the address is used before the postal code, and a
\* descriptor with none of the forms throws the unresolvable-location error.
ResolveCoordinatesOrder ==
    res.op = "resolveCoordinates"
    => LET l == out.location
       IN  /\ l.coordinates # -1
                => res.status = 0 /\ res.calls = 0 /\ out.coordinates = l.coordinates
           /\ (l.coordinates = -1 /\ l.address = "chicago" /\ ~googleMapsApiKey)
                => res.status = 0 /\ out.coordinates = Min2(1, MaxPos)
           /\ NoLocationForm(l) => res.status = -1 /\ res.message = LocationUnresolved

\* C20: resolveCoordinates takes the first of coordinates, address and postal
\* code that is present, returns given coordinates unchanged without a
\* geocoding request, and for a descriptor with none of the forms fails with
\* the unresolvable-location error, which the caller of getDirections
\* receives as that distinct failure.
C20_LocationUnresolvedReachesCaller ==
    /\ ResolveCoordinatesOrder
    /\ (res.op = "getDirections" /\ res.id = "h1" /\ NoLocationForm(out.origin))
        => res.status = -1 /\ res.message = LocationUnresolved

-----------------------------------------------------------------------------
(* findSpecialists over cardiologists of several hospitals *)

SpecialistRatings == {45, 48}

\* The seeded doctors as cardiologists of either of the two hospitals that
\* offer cardiology, with ratings that can coincide.
Cardiologists ==
    {[d \in DOMAIN sampleDoctors |->
        [sampleDoctors[d] EXCEPT !.specializations = {"Cardiology"},
                                 !.hospital = hs[d], !.averageRating = rs[d]]] :
        hs \in [DOMAIN sampleDoctors -> {"h1", "h2"}],
        rs \in [DOMAIN sampleDoctors -> SpecialistRatings]}

InitSpecialists ==
    /\ openaiKey = NoKey
    /\ mapsKey = NoMapsKey
    /\ patients = <<>>
    /\ doctors \in Cardiologists
    /\ hospitals = sampleHospitals
    /\ res = Start
    /\ out = Null
    /\ uploads = NoUploads
    /\ inflight = NoInflight
    /\ ui = NoUi

CallFindSpecialistsWithLimit ==
    \E coordinates \in Positions, limit \in {1, 2, 15}, rating \in {0, 40} :
        LocatorCall(findSpecialists(Location(coordinates, "", "", ""), "Cardiology", 25, limit,
                                    rating, "ok", 0))

SpecSpecialists == InitSpecialists /\ [][CallFindSpecialistsWithLimit]_vars

\* C21: findSpecialists lists the specialists by rating descending and, for
\* equal ratings, by distance ascending; the list is no longer than
\* totalFound, the number of specialists before the cut.
C21_SpecialistsOrdered ==
    (res.op = "findSpecialists" /\ res.status = 0)
    => /\ \A i, j \in DOMAIN out.doctors :
            i < j =>
                \/ doctors[out.doctors[i]].averageRating > doctors[out.doctors[j]].averageRating
                \/ /\ doctors[out.doctors[i]].averageRating = doctors[out.doctors[j]].averageRating
                   /\ SpecialistDistance(out.doctors[i], out.searchLocation)
                        <= SpecialistDistance(out.doctors[j], out.searchLocation)
       /\ Len(out.doctors) <= out.totalFound

\* The part of it that holds: rating descending, and totalFound counting the
\* specialists before the cut.
SpecialistsByRating ==
    (res.op = "findSpecialists" /\ res.status = 0)
    => /\ \A i, j \in DOMAIN out.doctors :
            i < j => doctors[out.doctors[i]].averageRating
                        >= doctors[out.doctors[j]].averageRating
       /\ Len(out.doctors) <= out.totalFound
       /\ out.totalFound = Cardinality({d \in DOMAIN doctors : doctors[d].isActive})

\* C22: for a patient with a non-empty set of candidate doctors,
\* suggestDoctors returns recommendations, each with the matchScore of the
\* ranking, in non-increasing order of matchScore.
C22_SuggestDoctorsRanks ==
    (/\ res.op = "suggestDoctors"
     /\ res.queries = 2
     /\ SuggestCandidates(patients[res.id], "Cardiology") # {})
    => /\ res.status = 0
       /\ out.recommendations # <<>>
       /\ \A i, j \in DOMAIN out.recommendations :
            i < j => out.recommendations[i].matchScore >= out.recommendations[j].matchScore

-----------------------------------------------------------------------------
(* getEstimatedTravelTime *)

MaxTravelKm == 4

TravelModes == {"walking", "transit", "driving", "bicycling"}

\* What the directions request can come to: a route with its duration, an
\* answer without a route, or a failure.
TravelReplies == {"ok", "empty", "fail"}

\* The minutes of the route the provider answers with.
ProviderMinutes == 7

\* An estimate that drives where it should ride.
getEstimatedTravelTimeAllDriving(origin, destination, mode, up) ==
    IF ~googleMapsApiKey
    THEN [result |-> Returned("getEstimatedTravelTime", mode, 0, 0),
          value |-> <<RoundDiv(Distance(origin, destination) * 60,
                               IF mode = "walking" THEN 5 ELSE 40)>>]
    ELSE [result |-> WithCalls(Returned("getEstimatedTravelTime", mode, 0, 0), 1),
          value |-> IF up = "ok" THEN <<ProviderMinutes>> ELSE <<>>]

\* getEstimatedTravelTime: <<>> stands for null. Without a key the distance
\* over a fixed speed; with one the provider's duration, and null when the
\* request fails or has no route.
getEstimatedTravelTime(origin, destination, mode, up) ==
    IF ~googleMapsApiKey
    THEN LET distance == Distance(origin, destination)
             speedKmH == IF mode = "walking" THEN 5 ELSE IF mode = "transit" THEN 25 ELSE 40
         IN  [result |-> Returned("getEstimatedTravelTime", mode, 0, 0),
              value |-> <<RoundDiv(distance * 60, speedKmH)>>]
    ELSE [result |-> WithCalls(Returned("getEstimatedTravelTime", mode, 0, 0), 1),
          value |-> IF up = "ok" THEN <<ProviderMinutes>> ELSE <<>>]

\* One call for the pair of points in out; the answer is kept by mode.
CallGetEstimatedTravelTime ==
    \E mode \in TravelModes, up \in TravelReplies :
        LET d == getEstimatedTravelTime(out.origin, out.destination, mode, up)
        IN  /\ res' = d.result
            /\ out' = [out EXCEPT !.minutes = (mode :> d.value) @@ @,
                                  !.replies = (mode :> up) @@ @]
            /\ UNCHANGED <<openaiKey, mapsKey, inflight, ui, uploads, patients, doctors, hospitals>>

InitTravel ==
    /\ openaiKey = NoKey
    /\ mapsKey \in AppMapsKeys
    /\ patients = <<>>
    /\ doctors = <<>>
    /\ hospitals = <<>>
    /\ uploads = NoUploads
    /\ inflight = NoInflight
    /\ ui = NoUi
    /\ res = Start
    /\ out \in [origin : 0..MaxTravelKm, destination : 0..MaxTravelKm,
                minutes : {<<>>}, replies : {<<>>}]

SpecTravel == InitTravel /\ [][CallGetEstimatedTravelTime]_vars

\* r = Math.round(60 * km / speed)
IsRoundedMinutes(r, km, speed) ==
    (2 * r - 1) * speed <= 120 * km /\ 120 * km < (2 * r + 1) * speed

\* C23: without a routing provider getEstimatedTravelTime returns
\* round(km / speed * 60) with speed 5 walking, 25 transit and 40 otherwise,
\* so walking takes at least as long as transit and transit as driving; with
\* a provider it never raises and returns null when the request fails.
C23_TravelTime ==
    res.op = "getEstimatedTravelTime"
    => LET km == Abs(out.origin - out.destination)
           Speed(mode) == IF mode = "walking" THEN 5 ELSE IF mode = "transit" THEN 25 ELSE 40
       IN  /\ res.status = 0
           /\ ~googleMapsApiKey
                => /\ \A mode \in DOMAIN out.minutes :
                        /\ Len(out.minutes[mode]) = 1
                        /\ IsRoundedMinutes(out.minutes[mode][1], km, Speed(mode))
                   /\ {"walking", "transit"} \subseteq DOMAIN out.minutes
                        => out.minutes["walking"][1] >= out.minutes["transit"][1]
                   /\ {"transit", "driving"} \subseteq DOMAIN out.minutes
                        => out.minutes["transit"][1] >= out.minutes["driving"][1]
           /\ googleMapsApiKey
                => \A mode \in DOMAIN out.minutes :
                        out.replies[mode] # "ok" => out.minutes[mode] = <<>>

\* Three kilometres without a provider: 36 minutes on foot, 7 by transit and
\* 5 by car.
C23_Witness ==
    /\ res.op = "getEstimatedTravelTime"
    /\ ~googleMapsApiKey
    /\ Abs(out.origin - out.destination) = 3
    /\ TravelModes \subseteq DOMAIN out.minutes
    /\ out.minutes["walking"] = <<36>>
    /\ out.minutes["transit"] = <<7>>
    /\ out.minutes["driving"] = <<5>>

\* The lowest index of a primary contact.
FirstPrimary(contacts) ==
    CHOOSE i \in DOMAIN contacts : contacts[i] /\ \A j \in 1..(i - 1) : ~contacts[j]

\* C24: when more than one emergency contact is primary, the save keeps the
\* first primary contact primary and demotes every other one, so that exactly
\* one primary contact remains.
C24_FirstPrimaryKept ==
    (PatientSavedByLogin /\ PrimaryCount(out.before.emergencyContacts) > 1)
    => LET before == out.before.emergencyContacts
           after == patients[res.id].emergencyContacts
       IN  /\ PrimaryCount(after) = 1
           /\ after[FirstPrimary(before)]

\* Request r has stored a file and has not been answered yet.
UploadInFlight(r) ==
    /\ r \in DOMAIN uploads.requests
    /\ uploads.requests[r].pc \in {"stored", "awaiting"}

\* C25: two history uploads in flight at the same time are stored under
\* distinct paths, and the file of a request that has not read it yet is
\* still on disk, whatever the other request has cleaned up.
C25_UploadsDoNotInterfere ==
    /\ \A r1, r2 \in RequestIds :
          (r1 # r2 /\ UploadInFlight(r1) /\ UploadInFlight(r2))
          => uploads.requests[r1].path # uploads.requests[r2].path
    /\ \A r \in RequestIds :
          (UploadInFlight(r) /\ uploads.requests[r].pc = "stored")
          => uploads.requests[r].path \in DOMAIN uploads.files

-----------------------------------------------------------------------------
(* generatePatientSummary step by step, with logins in between *)

SummaryOp == "generatePatientSummary"

SummaryFailed(patientId, queries, calls) ==
    WithCalls(Raised(SummaryOp, patientId,
                     Rethrown("", "Failed to generate patient summary"), queries, 0), calls)

\* Up to the first await after the read: Patient.findById(...).lean(), and
\* for a missing patient the throw.
SummaryRead(r, patientId) ==
    /\ r \notin DOMAIN inflight
    /\ LET found == findById(patients, patientId)
       IN  IF found # "found"
           THEN /\ inflight' = (r :> [patientId |-> patientId, pc |-> "done",
                                      patient |-> Null]) @@ inflight
                /\ res' = SummaryFailed(patientId, QueriesOf(found), 0)
                /\ out' = Null
           ELSE /\ inflight' = (r :> [patientId |-> patientId, pc |-> "summary",
                                      patient |-> patients[patientId]]) @@ inflight
                /\ UNCHANGED <<res, out>>
    /\ UNCHANGED <<openaiKey, mapsKey, ui, uploads, patients, doctors, hospitals>>

\* The summary request comes back: a failure ends the call, a reply starts
\* the extraction.
SummaryAnswered(r, up1) ==
    /\ r \in DOMAIN inflight
    /\ inflight[r].pc = "summary"
    /\ LET c == ProviderCall(up1)
       IN  IF ~ProviderAnswered(c)
           THEN /\ inflight' = [inflight EXCEPT ![r].pc = "done"]
                /\ res' = SummaryFailed(inflight[r].patientId, 1, IF c = "throw" THEN 0 ELSE 1)
                /\ out' = Null
           ELSE /\ inflight' = [inflight EXCEPT ![r].pc = "extraction"]
                /\ UNCHANGED <<res, out>>
    /\ UNCHANGED <<openaiKey, mapsKey, ui, uploads, patients, doctors, hospitals>>

\* The extraction comes back, with insights or with the fallback, and the
\* update is sent.
ExtractionAnswered(r, up2) ==
    /\ r \in DOMAIN inflight
    /\ inflight[r].pc = "extraction"
    /\ LET patientId == inflight[r].patientId
           structuredData == extractStructuredInsights(up2)
       IN  /\ patients' = WriteInsights(patients, patientId, inflight[r].patient, structuredData)
           /\ res' = WithCalls(Returned(SummaryOp, patientId, 2, 1), 2)
           /\ out' = [summary |-> "text", structuredData |-> structuredData]
    /\ inflight' = [inflight EXCEPT ![r].pc = "done"]
    /\ UNCHANGED <<openaiKey, mapsKey, ui, uploads, doctors, hospitals>>

InitSummary ==
    /\ openaiKey \in AppOpenAIKeys
    /\ mapsKey = NoMapsKey
    /\ patients = samplePatients @@ [p2 |-> NewPatient("ann")]
    /\ doctors = <<>>
    /\ hospitals = <<>>
    /\ res = Start
    /\ out = Null
    /\ uploads = NoUploads
    /\ inflight = NoInflight
    /\ ui = NoUi

NextSummary ==
    \/ \E r \in RequestIds, patientId \in PatientIdInputs : SummaryRead(r, patientId)
    \/ \E r \in RequestIds, up1 \in ProviderReplies : SummaryAnswered(r, up1)
    \/ \E r \in RequestIds, up2 \in ProviderReplies : ExtractionAnswered(r, up2)
    \/ \E email \in {"neel", "ann"} : Login(email, TRUE, "patient")

SpecSummary == InitSummary /\ [][NextSummary]_vars

-----------------------------------------------------------------------------
(* The front-end API client against the backend's routes *)

Route(method, path) == [method |-> method, path |-> path]

\* The routes of the auth, ai, hospitals and patients routers under /api, in
\* the order they are registered.
BackendRoutes ==
    <<Route("POST", <<"auth", "register", "patient">>),
      Route("POST", <<"auth", "login">>),
      Route("GET", <<"auth", "me">>),
      Route("POST", <<"auth", "forgot-password">>),
      Route("POST", <<"ai", "patient-summary", ":patientId">>),
      Route("POST", <<"ai", "suggest-doctors", ":patientId">>),
      Route("POST", <<"ai", "analyze-symptoms">>),
      Route("GET", <<"ai", "health-insights", ":patientId">>),
      Route("POST", <<"ai", "medical-chat">>),
      Route("POST", <<"ai", "risk-assessment", ":patientId">>),
      Route("POST", <<"ai", "medication-interactions">>),
      Route("POST", <<"ai", "patient-history-summary">>),
      Route("GET", <<"hospitals">>),
      Route("POST", <<"hospitals", "nearby">>),
      Route("GET", <<"hospitals", "details", ":placeId">>),
      Route("POST", <<"hospitals", "directions">>),
      Route("POST", <<"hospitals", "emergency">>),
      Route("GET", <<"hospitals", ":id">>),
      Route("GET", <<"hospitals", ":id", "capacity">>),
      Route("POST", <<"hospitals", ":id", "directions">>),
      Route("GET", <<"hospitals", "search", ":query">>),
      Route("GET", <<"hospitals", ":id", "departments">>),
      Route("GET", <<"hospitals", ":id", "reviews">>),
      Route("POST", <<"hospitals", ":id", "reviews">>),
      Route("GET", <<"hospitals", "meta", "types">>),
      Route("GET", <<"hospitals", "meta", "specialties">>),
      Route("GET", <<"hospitals", "meta", "cities">>),
      Route("GET", <<"hospitals", "meta", "insurance-providers">>),
      Route("GET", <<"patients", ":id">>),
      Route("PUT", <<"patients", ":id">>)>>

IsParam(segment) == segment \in {":id", ":patientId", ":placeId", ":query"}

\* The requests of ApiClient: "$" stands for an id interpolated into the
\* path; the query string takes no part in routing.
ApiClientCalls ==
    [generatePatientSummary |-> Route("POST", <<"ai", "patient-summary", "$">>),
     suggestDoctors |-> Route("POST", <<"ai", "suggest-doctors">>),
     analyzeSymptoms |-> Route("POST", <<"ai", "analyze-symptoms">>),
     generateHealthInsights |-> Route("POST", <<"ai", "health-insights", "$">>),
     chatWithAI |-> Route("POST", <<"ai", "chat">>),
     findNearbyHospitals |-> Route("GET", <<"hospitals", "nearby">>),
     findEmergencyHospitals |-> Route("POST", <<"hospitals", "emergency">>),
     findSpecialists |-> Route("GET", <<"hospitals", "specialists">>),
     getHospitalCapacity |-> Route("GET", <<"hospitals", "$", "capacity">>),
     getDirections |-> Route("GET", <<"hospitals", "directions">>),
     getPatient |-> Route("GET", <<"patients", "$">>),
     updatePatient |-> Route("PUT", <<"patients", "$">>),
     createPatient |-> Route("POST", <<"patients">>),
     login |-> Route("POST", <<"auth", "login">>),
     register |-> Route("POST", <<"auth", "register">>)]

\* Express matches a request against a route segment by segment; a parameter
\* matches any segment.
Matches(route, request) ==
    /\ route.method = request.method
    /\ Len(route.path) = Len(request.path)
    /\ \A i \in DOMAIN route.path :
          IsParam(route.path[i]) \/ route.path[i] = request.path[i]

\* The first route that matches, <<>> when the request falls through to
\* notFound.
ServingRoute(request) ==
    LET matching == {i \in DOMAIN BackendRoutes : Matches(BackendRoutes[i], request)}
    IN  IF matching = {} THEN <<>>
        ELSE <<BackendRoutes[CHOOSE i \in matching : \A j \in matching : i <= j]>>

\* The route is the one the client's path names: literal segments agree and
\* the interpolated ids stand where the route has its parameters.
SameRoute(route, call) ==
    /\ route.method = call.method
    /\ Len(route.path) = Len(call.path)
    /\ \A i \in DOMAIN route.path :
          IF call.path[i] = "$" THEN IsParam(route.path[i])
          ELSE route.path[i] = call.path[i]

\* obj.key in JavaScript: <<>> stands for undefined.
Get(obj, key) == IF key \in DOMAIN obj THEN <<obj[key]>> ELSE <<>>

\* The body POST /auth/login answers 200 with.
LoginBody(id, email, userType) ==
    [success |-> TRUE,
     data |-> [token |-> [id |-> id, type |-> userType],
               user |-> [id |-> id, email |-> email, type |-> userType]]]

Unmounted == [pending |-> <<>>, body |-> <<>>, token |-> <<>>, user |-> <<>>,
              currentUser |-> <<>>, settled |-> "idle"]

\* A method of ApiClient sends its request, with an id of a stored record
\* where the path has one.
ClientRequest(name, id) ==
    /\ ui.pending = <<>>
    /\ LET call == ApiClientCalls[name]
           request == [call EXCEPT !.path = [i \in DOMAIN call.path |->
                                                IF call.path[i] = "$" THEN id ELSE call.path[i]]]
           served == ServingRoute(request)
       IN  /\ res' = Response("ApiClient", name, IF served = <<>> THEN 404 ELSE 0, "", 0, 0)
           /\ out' = [call |-> call, route |-> served]
    /\ UNCHANGED <<openaiKey, mapsKey, inflight, ui, uploads, patients, doctors, hospitals>>

\* useLogin().mutate: authService.login sends POST /auth/login.
UseLoginMutate(email, userType) ==
    /\ ui.pending = <<>>
    /\ ui' = [ui EXCEPT !.pending = <<[email |-> email, userType |-> userType]>>,
                        !.settled = "pending"]
    /\ res' = Response("useLogin", email, 0, "", 0, 0)
    /\ out' = Null
    /\ UNCHANGED <<openaiKey, mapsKey, inflight, uploads, patients, doctors, hospitals>>

\* The server handles the request of the pending mutation.
ServeLogin ==
    /\ ui.pending # <<>>
    /\ res.op = "useLogin"
    /\ Login(ui.pending[1].email, TRUE, ui.pending[1].userType)

\* The mutation settles: request() throws for a status that is not ok;
\* onSuccess stores data.token and data.user, data being the parsed body.
\* JSON.stringify(undefined) and setItem(key, undefined) store no user or
\* token the client can use.
UseLoginSettled ==
    /\ ui.pending # <<>>
    /\ res.op = "POST /auth/login"
    /\ IF res.status # 200
       THEN ui' = [ui EXCEPT !.pending = <<>>, !.settled = "error"]
       ELSE LET data == LoginBody(res.id, ui.pending[1].email, ui.pending[1].userType)
            IN  ui' = [ui EXCEPT !.pending = <<>>, !.settled = "success",
                                 !.body = <<data>>,
                                 !.token = Get(data, "token"),
                                 !.user = Get(data, "user"),
                                 !.currentUser = Get(data, "user")]
    /\ UNCHANGED <<openaiKey, mapsKey, inflight, uploads, patients, doctors, hospitals, res, out>>

InitClient ==
    /\ openaiKey = NoKey
    /\ mapsKey = NoMapsKey
    /\ patients = samplePatients
    /\ doctors = sampleDoctors
    /\ hospitals = sampleHospitals
    /\ res = Start
    /\ out = Null
    /\ uploads = NoUploads
    /\ inflight = NoInflight
    /\ ui = Unmounted

NextClient ==
    \/ \E name \in DOMAIN ApiClientCalls, id \in {"p1", "h1"} : ClientRequest(name, id)
    \/ \E email \in Emails, userType \in {"patient", "doctor"} : UseLoginMutate(email, userType)
    \/ ServeLogin
    \/ UseLoginSettled

SpecClient == InitClient /\ [][NextClient]_vars

\* Every request of the client is served by the route of its path and method.
ClientRoutesServed ==
    res.op = "ApiClient" => out.route # <<>> /\ SameRoute(out.route[1], out.call)

\* After a successful login the stored token and user are those of the
\* response.
LoginTokenStored ==
    ui.settled = "success"
    => /\ ui.token = <<ui.body[1].data.token>>
       /\ ui.currentUser = <<ui.body[1].data.user>>

\* C27: every request the API client issues is served by a backend route of
\* the same path and method, and after a successful useLogin the token in
\* localStorage is the token POST /auth/login issued and the cached current
\* user is the user of that response.
C27_ClientMatchesBackend == ClientRoutesServed /\ LoginTokenStored

-----------------------------------------------------------------------------
(* The HospitalLocator view *)

MaxOps == 4

ViewPositions == {1, 2}

ViewRadii == {25000, 1000}

\* What a search request can come back with: a success body, a body with
\* success false, a status that is not ok, a rejected fetch.
SearchOutcomes == {"success", "unsuccessful", "notOk", "rejected"}

\* The component after its first render; whether the browser has
\* navigator.geolocation is the environment's.
LocatorView(geolocation) ==
    [geolocation |-> geolocation, mounted |-> FALSE, started |-> 0, completed |-> 0,
     userLocation |-> <<>>, hospitals |-> <<>>, emergencyHospitals |-> <<>>,
     loading |-> FALSE, locationError |-> <<>>, searchRadius |-> 25000]

StartOp(view, ops, op) ==
    [view |-> [view EXCEPT !.started = @ + 1, !.loading = TRUE],
     ops |-> (view.started + 1 :> op) @@ ops]

getCurrentLocation(view, ops) ==
    IF ~view.geolocation
    THEN [view |-> [view EXCEPT !.locationError = <<"Geolocation is not supported by this browser">>],
          ops |-> ops]
    ELSE StartOp(view, ops, [kind |-> "geolocation"])

searchNearbyHospitals(view, ops, location) ==
    StartOp(view, ops, [kind |-> "nearby", latitude |-> location, radius |-> view.searchRadius])

searchEmergencyHospitals(view, ops) ==
    IF view.userLocation = <<>>
    THEN [view |-> view, ops |-> ops]
    ELSE StartOp(view, ops, [kind |-> "emergency", latitude |-> view.userLocation[1], radius |-> 50000])

\* Refresh Location without its disabled={loading}.
RefreshNeverDisabled(view) == FALSE

RefreshDisabled(view) == view.loading

\* disabled={!userLocation || loading} of the two search buttons.
SearchDisabled(view) == view.userLocation = <<>> \/ view.loading

Without(ops, id) == [i \in DOMAIN ops \ {id} |-> ops[i]]

ViewStep(next) ==
    /\ ui' = next.view
    /\ inflight' = next.ops
    /\ UNCHANGED <<openaiKey, mapsKey, uploads, patients, doctors, hospitals, res, out>>

\* useEffect(() => getCurrentLocation(), [])
MountEffect ==
    /\ ~ui.mounted
    /\ ViewStep(getCurrentLocation([ui EXCEPT !.mounted = TRUE], inflight))

ClickRefreshLocation ==
    /\ ui.mounted /\ ui.started < MaxOps
    /\ ~RefreshDisabled(ui)
    /\ ViewStep(getCurrentLocation(ui, inflight))

ClickSearchHospitals ==
    /\ ui.mounted /\ ui.started < MaxOps
    /\ ~SearchDisabled(ui)
    /\ ViewStep(searchNearbyHospitals(ui, inflight, ui.userLocation[1]))

ClickEmergency ==
    /\ ui.mounted /\ ui.started < MaxOps
    /\ ~SearchDisabled(ui)
    /\ ViewStep(searchEmergencyHospitals(ui, inflight))

ChangeRadius(radius) ==
    /\ ui.mounted
    /\ ui.searchRadius # radius
    /\ ViewStep([view |-> [ui EXCEPT !.searchRadius = radius], ops |-> inflight])

\* The success callback of getCurrentPosition, which starts the search.
GeolocationSuccess(id, position) ==
    /\ id \in DOMAIN inflight
    /\ inflight[id].kind = "geolocation"
    /\ LET located == [ui EXCEPT !.userLocation = <<position>>, !.locationError = <<>>,
                                 !.loading = FALSE, !.completed = @ + 1]
       IN  ViewStep(searchNearbyHospitals(located, Without(inflight, id), position))

GeolocationError(id) ==
    /\ id \in DOMAIN inflight
    /\ inflight[id].kind = "geolocation"
    /\ ViewStep([view |-> [ui EXCEPT !.loading = FALSE, !.completed = @ + 1,
                                     !.locationError = <<"Unable to get your location. Please allow location access.">>],
                 ops |-> Without(inflight, id)])

\* The rest of a search after its await: the try, the catch and the finally.
SearchSettled(id, outcome, found) ==
    /\ id \in DOMAIN inflight
    /\ inflight[id].kind \in {"nearby", "emergency"}
    /\ LET shown == IF outcome # "success" THEN ui
                    ELSE IF inflight[id].kind = "nearby"
                         THEN [ui EXCEPT !.hospitals = found]
                         ELSE [ui EXCEPT !.emergencyHospitals = found]
       IN  ViewStep([view |-> [shown EXCEPT !.loading = FALSE, !.completed = @ + 1],
                     ops |-> Without(inflight, id)])

InitView ==
    /\ openaiKey = NoKey
    /\ mapsKey = NoMapsKey
    /\ patients = samplePatients
    /\ doctors = sampleDoctors
    /\ hospitals = sampleHospitals
    /\ res = Start
    /\ out = Null
    /\ uploads = NoUploads
    /\ inflight = NoInflight
    /\ \E geolocation \in BOOLEAN : ui = LocatorView(geolocation)

NextView ==
    \/ MountEffect
    \/ ClickRefreshLocation
    \/ ClickSearchHospitals
    \/ ClickEmergency
    \/ \E radius \in ViewRadii : ChangeRadius(radius)
    \/ \E id \in DOMAIN inflight, position \in ViewPositions : GeolocationSuccess(id, position)
    \/ \E id \in DOMAIN inflight : GeolocationError(id)
    \/ \E id \in DOMAIN inflight, outcome \in SearchOutcomes, found \in {<<>>, <<"h1">>} :
          SearchSettled(id, outcome, found)

SpecView == InitView /\ [][NextView]_vars

\* C28: in the HospitalLocator view loading is true exactly while a
\* geolocation lookup or a nearby or emergency search is in flight, and at
\* most one of them is in flight at any time; once it has completed, with
\* whatever outcome, and nothing else was started, loading is false.
C28_LoadingGuardsOperations ==
    /\ Cardinality(DOMAIN inflight) <= 1
    /\ ui.loading = (DOMAIN inflight # {})

\* An emergency search in flight after earlier operations have completed.
C28_Witness ==
    /\ \E id \in DOMAIN inflight : inflight[id].kind = "emergency"
    /\ ui.loading
    /\ ui.completed >= 2

-----------------------------------------------------------------------------
(* The PatientHistorySummary view and its FileUpload *)

\* Files the user can pick: the name's extension and whether the size is
\* within maxSize.
ViewFiles ==
    {[name |-> "a", ext |-> ".txt", small |-> TRUE],
     [name |-> "b", ext |-> ".txt", small |-> TRUE],
     [name |-> "c", ext |-> ".pdf", small |-> TRUE],
     [name |-> "d", ext |-> ".txt", small |-> FALSE]}

SummaryView ==
    [selectedFile |-> <<>>, isProcessing |-> FALSE, summary |-> <<>>,
     error |-> <<>>, started |-> 0, dragOver |-> FALSE, inputValue |-> <<>>]

\* FileUpload without the disabled prop.
UploadNeverDisabled(view) == FALSE

\* disabled={isProcessing} of FileUpload.
UploadDisabled(view) == view.isProcessing

handleFileSelect(view, file) == [view EXCEPT !.selectedFile = <<file>>, !.summary = <<>>]

handleFileRemove(view) == [view EXCEPT !.selectedFile = <<>>, !.summary = <<>>]

handleFileSelection(view, file) ==
    LET cleared == [view EXCEPT !.error = <<>>]
    IN  IF file.ext # ".txt" THEN [cleared EXCEPT !.error = <<"Please select a .txt file">>]
        ELSE IF ~file.small THEN [cleared EXCEPT !.error = <<"File size must be less than 10MB">>]
        ELSE handleFileSelect(cleared, file)

\* The file input is unmounted, and its value with it, once a file is shown.
Rendered(view) ==
    IF view.selectedFile = <<>> THEN view ELSE [view EXCEPT !.inputValue = <<>>]

\* The drop zone and the file input exist only while no file is shown.
DragOver ==
    /\ ui.selectedFile = <<>>
    /\ ~ui.dragOver
    /\ ~UploadDisabled(ui)
    /\ ViewStep([view |-> [ui EXCEPT !.dragOver = TRUE], ops |-> inflight])

DragLeave ==
    /\ ui.selectedFile = <<>>
    /\ ui.dragOver
    /\ ViewStep([view |-> [ui EXCEPT !.dragOver = FALSE], ops |-> inflight])

\* handleDrop
DropFile(file) ==
    /\ ui.selectedFile = <<>>
    /\ LET left == [ui EXCEPT !.dragOver = FALSE]
       IN  ViewStep([view |-> IF UploadDisabled(ui) THEN left
                              ELSE Rendered(handleFileSelection(left, file)),
                     ops |-> inflight])

\* handleFileInput: the input changes to the chosen file.
ChooseFile(file) ==
    /\ ui.selectedFile = <<>>
    /\ ~UploadDisabled(ui)
    /\ ui.inputValue # <<file.name>>
    /\ ViewStep([view |-> Rendered(handleFileSelection([ui EXCEPT !.inputValue = <<file.name>>], file)),
                 ops |-> inflight])

\* The remove button exists only while a file is shown.
ClickRemoveFile ==
    /\ ui.selectedFile # <<>>
    /\ ~UploadDisabled(ui)
    /\ ViewStep([view |-> handleFileRemove([ui EXCEPT !.error = <<>>]), ops |-> inflight])

\* handleGenerateSummary up to its await.
ClickGenerate ==
    /\ ui.started < MaxOps
    /\ ~(ui.selectedFile = <<>> \/ ui.isProcessing)
    /\ ViewStep([view |-> [ui EXCEPT !.isProcessing = TRUE, !.started = @ + 1],
                 ops |-> (ui.started + 1 :> [file |-> ui.selectedFile[1]]) @@ inflight])

\* handleGenerateSummary after its await; the summary of a response is that
\* of the file the request carried.
GenerateSettled(id, outcome) ==
    /\ id \in DOMAIN inflight
    /\ LET shown == IF outcome = "success"
                    THEN [ui EXCEPT !.summary = <<[file |-> inflight[id].file]>>]
                    ELSE ui
       IN  ViewStep([view |-> [shown EXCEPT !.isProcessing = FALSE],
                     ops |-> Without(inflight, id)])

InitHistory ==
    /\ openaiKey = NoKey
    /\ mapsKey = NoMapsKey
    /\ patients = samplePatients
    /\ doctors = sampleDoctors
    /\ hospitals = sampleHospitals
    /\ res = Start
    /\ out = Null
    /\ uploads = NoUploads
    /\ inflight = NoInflight
    /\ ui = SummaryView

NextHistory ==
    \/ DragOver
    \/ DragLeave
    \/ \E file \in ViewFiles : DropFile(file)
    \/ \E file \in ViewFiles : ChooseFile(file)
    \/ ClickRemoveFile
    \/ ClickGenerate
    \/ \E id \in DOMAIN inflight, outcome \in SearchOutcomes : GenerateSettled(id, outcome)

SpecHistory == InitHistory /\ [][NextHistory]_vars

\* C29: in the PatientHistorySummary view a displayed summary was generated
\* from the file that is selected now; while a generation request is in
\* flight the selected file is the one the request carries, and isProcessing
\* is true exactly while a request is in flight, so it is false after every
\* outcome.
C29_SummaryOfSelectedFile ==
    /\ ui.summary # <<>> => ui.selectedFile = <<ui.summary[1].file>>
    /\ \A id \in DOMAIN inflight : ui.selectedFile = <<inflight[id].file>>
    /\ ui.isProcessing = (DOMAIN inflight # {})

\* Selecting or removing a file clears the summary.
C29_Witness ==
    /\ ui.summary # <<>>
    /\ ui.selectedFile # <<>>
    /\ ui.selectedFile[1].name = "b"
    /\ ui.started >= 2
    /\ ~ui.isProcessing

-----------------------------------------------------------------------------
(* Interleaved registrations *)

RegisterRequests == {1, 2, 3}

\* POST /api/auth/register/patient up to the await of Patient.findOne: the
\* 400 when a patient has the email, else the request goes on to hash the
\* password.
RegisterFind(r, email) ==
    /\ r \notin DOMAIN inflight
    /\ Cardinality(DOMAIN patients) + Cardinality(DOMAIN inflight) < Len(PatientIdOrder)
    /\ IF FindByEmail(patients, email) # {}
       THEN /\ res' = Response("POST /auth/register/patient", email, 400,
                               "Patient with this email already exists", 1, 0)
            /\ UNCHANGED inflight
       ELSE /\ inflight' = (r :> [email |-> email]) @@ inflight
            /\ UNCHANGED res
    /\ out' = Null
    /\ UNCHANGED <<openaiKey, mapsKey, ui, uploads, patients, doctors, hospitals>>

\* The rest of the handler: Patient.create, which the unique index on email
\* rejects with a duplicate key error when a patient has the email by now;
\* the handler does not catch it.
RegisterCreate(r) ==
    /\ r \in DOMAIN inflight
    /\ LET email == inflight[r].email
       IN  IF FindByEmail(patients, email) # {}
           THEN /\ res' = Raised("POST /auth/register/patient", email,
                                 "E11000 duplicate key error", 1, 0)
                /\ UNCHANGED patients
           ELSE /\ patients' = (FreshId(PatientIdOrder, patients) :> PatientSaved(NewPatient(email)))
                                   @@ patients
                /\ res' = Response("POST /auth/register/patient", email, 201, "", 1, 1)
    /\ inflight' = Without(inflight, r)
    /\ out' = Null
    /\ UNCHANGED <<openaiKey, mapsKey, ui, uploads, doctors, hospitals>>

InitRegister ==
    /\ openaiKey = NoKey
    /\ mapsKey = NoMapsKey
    /\ EmptyStores

NextRegister ==
    \/ \E r \in RegisterRequests, email \in Emails : RegisterFind(r, email)
    \/ \E r \in RegisterRequests : RegisterCreate(r)

SpecRegister == InitRegister /\ [][NextRegister]_vars

\* No two patient records have the same email.
OnePatientPerEmail ==
    \A p, q \in DOMAIN patients : patients[p].email = patients[q].email => p = q

\* C30: under any interleaving of POST /auth/register/patient requests there
\* is at most one patient record per email, and a request that completes
\* when its email is already registered is answered 400 'Patient with this
\* email already exists' and creates no record.
C30_RegistrationsSerialise ==
    /\ OnePatientPerEmail
    /\ (res.op = "POST /auth/register/patient" /\ res.status # 201)
       => /\ res.status = 400
          /\ res.message = "Patient with this email already exists"
          /\ res.writes = 0

====
